---- MODULE Spec2Model ----
(***************************************************************************)
(* A model of the editing-intelligence layer of e4code: the change tracker *)
(* and the debounced re-highlighting of main.rs, the highlighter and the   *)
(* bracket matcher of syntax_highlighting.rs, and the search / replace     *)
(* engine of search.rs.                                                    *)
(***************************************************************************)
EXTENDS Integers, Sequences, FiniteSets, TLC

(***************************************************************************)
(* Bounds of the model.                                                    *)
(***************************************************************************)
MaxLines == 2
MaxSources == 3

(***************************************************************************)
(* Program constants.                                                      *)
(***************************************************************************)
ContextLines == 3

Docs == {"d1", "d2"}

Max(a, b) == IF a >= b THEN a ELSE b
Min(a, b) == IF a <= b THEN a ELSE b
SetMin(S) == CHOOSE x \in S : \A y \in S : x <= y
SetMax(S) == CHOOSE x \in S : \A y \in S : x >= y

VARIABLES
    open,                   \* buffers shown in a notebook page
    tracked,                \* keys of AppContext::change_trackers
    line_count,             \* buffer.line_count() of every buffer
    changed_lines,          \* ChangeTracker::changed_lines of every buffer
    syntax_highlight_timer, \* AppContext::syntax_highlight_timer, 0 is None
    sources,                \* the pending glib timeout sources
    next_source_id,         \* the id glib gives to the next source
    last_pass,              \* the last highlighting pass run on every buffer
    burstEdits,             \* edits of the current burst of every buffer
    burstPasses,            \* passes run since the current burst began
    interfered,             \* the burst's timer was cancelled for another buffer
    affected,               \* lines affected by edits since the last drain
    fired,                  \* how many times the closure of every source has run
    fire_affected,          \* the lines edits had affected when the timer just fired
    event                   \* what the last handler did

schedVars == <<open, tracked, line_count, changed_lines, syntax_highlight_timer,
               sources, next_source_id, last_pass, burstEdits, burstPasses,
               interfered, affected, fired, fire_affected, event>>

VARIABLES
    br_text,                \* the text of the buffer the bracket matcher reads
    br_iter,                \* the offset of the iterator given to it
    br_called,              \* find_matching_bracket has returned
    br_match                \* the offset it returned, -1 for None

bracketVars == <<br_text, br_iter, br_called, br_match>>

VARIABLES
    s_text,                 \* the text of the buffer searched
    s_insert,               \* the offset of its insert mark, the cursor
    s_bound,                \* the offset of its selection_bound mark
    search_text,            \* the arguments of the search functions
    replacement_text,
    match_case,
    whole_word,
    use_regex,
    s_op,                   \* the function that has run, "none" before
    s_found,                \* the Option<(start, end)> a find returned
    s_count,                \* the count replace_all returned
    s_text0,                \* the text when the function was called
    s_insert0,              \* the cursor when the function was called
    s_bound0                \* the selection bound when the function was called

searchVars == <<s_text, s_insert, s_bound, search_text, replacement_text,
                match_case, whole_word, use_regex, s_op, s_found, s_count,
                s_text0, s_insert0, s_bound0>>

VARIABLES
    hl_text,                \* the text of the buffer that is highlighted
    hl_line,                \* the line of the last edit
    hl_tags,                \* the <<offset, tag name>> of the tagged characters
    hl_before,              \* the tags when the last pass started
    hl_ops,                 \* the passes that have run, in order
    hl_h,                   \* the parse state the last pass ended in
    hl_range,               \* the line range given to the last incremental pass
    hl_table                \* the names of the "fg_" tags of the tag table, as added

hlVars == <<hl_text, hl_line, hl_tags, hl_before, hl_ops, hl_h, hl_range,
            hl_table>>

VARIABLES
    tr_changed_lines,        \* ChangeTracker::changed_lines of a tracker
    tr_last_inserted_text,   \* ChangeTracker::last_inserted_text
    tr_last_insert_position, \* ChangeTracker::last_insert_position, <<>> is None
    tr_returned,             \* the set the last take_changed_lines returned
    tr_recorded,             \* the lines recorded since the last take
    tr_before,               \* changed_lines when the last call was made
    tr_call,                 \* the last call and its lines
    tr_prev_call             \* the call before it

trackerVars == <<tr_changed_lines, tr_last_inserted_text, tr_last_insert_position,
                 tr_returned, tr_recorded, tr_before, tr_call, tr_prev_call>>

\* One call of find_next or find_previous taken step by step: the search
\* variables hold the buffer, the arguments and the result.
VARIABLES
    sc_pc,                  \* "idle", "scan", "exhausted" or "done"
    sc_iter,                \* the offset of the scanning iterator
    sc_pass,                \* 0 in the search from the cursor, 1 after the wrap
    sc_steps,               \* the times the loop of this search moved the iterator
    sc_prev_iter            \* the iterator before the loop last moved it

scanVars == <<sc_pc, sc_iter, sc_pass, sc_steps, sc_prev_iter>>

\* A text view with its buffer, its cursor and the bracket state that
\* setup_buffer_connections makes for it.
VARIABLES
    bh_text,                \* the characters of the buffer
    bh_cursor,              \* the offset of the insert mark
    bh_tags,                \* the offsets of the characters tagged "bracket_match"
    bh_prev,                \* prev_bracket_pos1 and prev_bracket_pos2
    bh_op,                  \* "none", "move", "insert", "delete" or "update"
    bh_edited               \* the buffer was edited since the view was made

bhVars == <<bh_text, bh_cursor, bh_tags, bh_prev, bh_op, bh_edited>>

\* One call of apply_incremental_highlighting.
VARIABLES
    win_line_count,         \* buffer.line_count()
    win_changed_lines,      \* the changed_lines given to it
    win_called,             \* the call has returned
    win_pass                \* the window it passed on, NoPass when it passed none

winVars == <<win_line_count, win_changed_lines, win_called, win_pass>>

\* One call of replace_all_advanced taken step by step: the search variables
\* hold the buffer, the arguments and the count returned.
VARIABLES
    ra_pc,                  \* "idle", "collect", "replace" or "done"
    ra_iter,                \* the offset of the iterator of the collection loop
    ra_prev_iter,           \* that offset before the last iteration, -1 before the first
    ra_matches,             \* the (start_offset, end_offset) pairs pushed
    ra_designated,          \* the text between the two offsets when each was pushed
    ra_done,                \* the iterations of the replacement loop made
    ra_processed,           \* the indices of the matches replaced
    ra_log                  \* the user actions and the edits of the buffer, in order

raVars == <<ra_pc, ra_iter, ra_prev_iter, ra_matches, ra_designated, ra_done,
            ra_processed, ra_log>>

\* One call of the incremental pass on a range of lines or a dirty set that
\* may lie outside the document.
VARIABLES
    rg_line_count,          \* buffer.line_count()
    rg_lines,               \* two line numbers: a range, or the dirty set
    rg_op,                  \* "none", "range" or "dirty"
    rg_pass,                \* the range the pass worked on, NoPass when none
    rg_read,                \* the lines handed to buffer.iter_at_line
    rg_tagged               \* the lines on which tags were applied

rgVars == <<rg_line_count, rg_lines, rg_op, rg_pass, rg_read, rg_tagged>>

\* The search and replace dialog: the search variables hold the buffer and
\* the entries and toggles of the dialog.
VARIABLES
    dlg_ops,                \* the responses handled, "find_next" or "replace"
    dlg_found,              \* what the find_next_advanced of each returned
    dlg_prev                \* the buffer before the last response

dlgVars == <<dlg_ops, dlg_found, dlg_prev>>

\* The notebook and the close buttons of its tab labels.
VARIABLES
    nb_pages,               \* the tabs of the pages of the notebook, by page index
    nb_captured,            \* the page_num the close button of every tab captured
    nb_modified,            \* the tabs whose buffer is modified
    nb_next,                \* the tab the next page is made for
    nb_event                \* the last handler, the tab it was for, the tab it took

tabsVars == <<nb_pages, nb_captured, nb_modified, nb_next, nb_event>>

\* AppContext::regex_cache and the calls of compile_regex_with_cache.
VARIABLES
    regex_cache,            \* the cached regexes: a function from the keys held
    rc_before,              \* the cache before the last call
    rc_call,                \* the pattern and match_case of the last call
    rc_result               \* what the last call returned

cacheVars == <<regex_cache, rc_before, rc_call, rc_result>>

vars == <<schedVars, bracketVars, searchVars, hlVars, trackerVars, scanVars,
          bhVars, winVars, raVars, rgVars, dlgVars, tabsVars, cacheVars>>

\* The sequences over the set S of at most n elements.
SeqsUpTo(S, n) == UNION {[1 .. k -> S] : k \in 0 .. n}

\* iter.char() at offset i of the text t: 0 (here "") at the end iterator.
CharAt(t, i) == IF i >= 0 /\ i < Len(t) THEN t[i + 1] ELSE ""

NoPass == [kind |-> "none", start_line |-> 0, end_line |-> 0]

PendingFor(d) == {s \in sources : s.buf = d}

(***************************************************************************)
(* change_tracker.rs                                                       *)
(***************************************************************************)
has_changes(d) == changed_lines[d] # {}

(***************************************************************************)
(* incremental_highlighting.rs: the window of the incremental pass, or     *)
(* NoPass when nothing is highlighted.                                     *)
(***************************************************************************)
\* A pass over the range as requested, not clamped.
Unclamped(lc, start_line, end_line) ==
    IF start_line > end_line THEN NoPass
    ELSE [kind |-> "incremental", start_line |-> start_line, end_line |-> end_line]

apply_incremental_syntax_highlighting(lc, start_line, end_line) ==
    LET s == Max(start_line, 0)
        e == Min(end_line, lc - 1)
    IN  IF s > e THEN NoPass
        ELSE [kind |-> "incremental", start_line |-> s, end_line |-> e]

\* A window without the lines of context.
WindowWithoutContext(lc, lines) ==
    IF lines = {} THEN NoPass
    ELSE apply_incremental_syntax_highlighting(lc, SetMin(lines), SetMax(lines))

\* A pass over the first dirty line alone.
HighlightFirstDirtyLine(lc, lines) ==
    IF lines = {} THEN NoPass
    ELSE apply_incremental_syntax_highlighting(lc, SetMin(lines), SetMin(lines))

\* The start_line and end_line apply_incremental_highlighting passes on.
PaddedRange(lc, lines) ==
    LET min_line == Max(SetMin(lines), 0)
        max_line == Min(SetMax(lines), lc - 1)
        start_line == Max(min_line - ContextLines, 0)
        end_line == Min(max_line + ContextLines, lc - 1)
    IN  <<start_line, end_line>>

apply_incremental_highlighting(lc, lines) ==
    IF lines = {} THEN NoPass
    ELSE apply_incremental_syntax_highlighting(lc, PaddedRange(lc, lines)[1],
                                               PaddedRange(lc, lines)[2])

\* The lines apply_incremental_syntax_highlighting hands to buffer.iter_at_line:
\* start_line and end_line + 1 for the removal of the tags, line_num and
\* line_num + 1 for the text of every line of the loop.
LinesRead(lc, start_line, end_line) ==
    LET pass == apply_incremental_syntax_highlighting(lc, start_line, end_line)
    IN  IF pass.kind = "none" THEN {}
        ELSE {pass.start_line}
                 \cup (IF pass.end_line + 1 < lc THEN {pass.end_line + 1} ELSE {})
                 \cup 0 .. (lc - 1)
                 \cup {n + 1 : n \in {k \in 0 .. (lc - 1) : k + 1 < lc}}

\* The lines of the loop on which it applies tags.
LinesTagged(lc, start_line, end_line) ==
    LET pass == apply_incremental_syntax_highlighting(lc, start_line, end_line)
    IN  IF pass.kind = "none" THEN {}
        ELSE {line_num \in 0 .. (lc - 1) :
                  line_num >= pass.start_line /\ line_num <= pass.end_line}

(***************************************************************************)
(* main.rs, highlight_closure: a full pass when the tracker is clean; the  *)
(* other branch needs syntax_context_ref, which is never set.              *)
(***************************************************************************)
highlight_closure(d, lc, lines) ==
    IF d \notin tracked \/ lines = {}
    THEN [kind |-> "full", start_line |-> 0, end_line |-> lc - 1]
    ELSE last_pass[d]

(***************************************************************************)
(* main.rs, connect_changed handler: the dirty-line marking and the        *)
(* cancellation of the stored timer.                                       *)
(***************************************************************************)
MarkNoFirstLine(lines, lc) == lines \cup 1 .. (lc - 1)
MarkChangedLines(lines, lc) == lines \cup 0 .. (lc - 1)

KeepSources(srcs, id) == srcs
CancelTimer(srcs, id) == {s \in srcs : s.id # id}

TimerRunsPassNever(d) == FALSE
TimerRunsPass(d) == d \in tracked /\ has_changes(d)

\* A dirty set that the closure of a timer leaves as it is.
KeepChangedLines(lines) == lines

\* tracker.changed_lines.clear() in the closure of a timer.
clear(lines) == {}

\* The stored handle after the closure of a timer has run: None.
TimerHandleKept == syntax_highlight_timer
TimerHandleAfterFire == 0

\* What a handler did: the buffer it ran for, the source it armed or that fired,
\* the pending sources of other buffers it removed, whether the buffer was shown
\* in a page, the pass it ran, whether it emptied the dirty set, and the open
\* buffers on which a requested highlight ran no full pass.
Event(kind, buf, id, lost, was_open, pass, drained, skipped) ==
    [kind |-> kind, buf |-> buf, id |-> id, lost |-> lost, was_open |-> was_open,
     pass |-> pass, drained |-> drained, skipped |-> skipped]

NoEvent == Event("none", "d1", 0, {}, FALSE, NoPass, FALSE, {})

\* The pass highlight_closure runs, NoPass when it runs none.
RequestedPass(d, lc, lines) ==
    IF d \notin tracked \/ lines = {}
    THEN [kind |-> "full", start_line |-> 0, end_line |-> lc - 1]
    ELSE NoPass

SchedInit ==
    /\ open = {}
    /\ tracked = {}
    /\ line_count = [d \in Docs |-> 1]
    /\ changed_lines = [d \in Docs |-> {}]
    /\ syntax_highlight_timer = 0
    /\ sources = {}
    /\ next_source_id = 1
    /\ last_pass = [d \in Docs |-> NoPass]
    /\ burstEdits = [d \in Docs |-> 0]
    /\ burstPasses = [d \in Docs |-> 0]
    /\ interfered = [d \in Docs |-> FALSE]
    /\ affected = [d \in Docs |-> {}]
    /\ fired = [id \in 1 .. MaxSources |-> 0]
    /\ fire_affected = {}
    /\ event = NoEvent

(***************************************************************************)
(* tab_manager.rs, open_file_in_new_tab / create_new_file_tab: the buffer  *)
(* is built with its text, setup_buffer_connections inserts a new tracker, *)
(* and highlight_closure runs.                                             *)
(***************************************************************************)
OpenTab(d, n) ==
    /\ d \notin tracked
    /\ open' = open \cup {d}
    /\ tracked' = tracked \cup {d}
    /\ line_count' = [line_count EXCEPT ![d] = n]
    /\ changed_lines' = [changed_lines EXCEPT ![d] = {}]
    /\ last_pass' = [last_pass EXCEPT ![d] = highlight_closure(d, n, {})]
    /\ event' = Event("open", d, 0, {}, TRUE, RequestedPass(d, n, {}), FALSE,
                      IF RequestedPass(d, n, {}).kind = "full" THEN {} ELSE {d})
    /\ UNCHANGED <<syntax_highlight_timer, sources, next_source_id, burstEdits,
                   burstPasses, interfered, affected, fired>>
    /\ fire_affected' = {}

(***************************************************************************)
(* main.rs, connect_changed handler, for an edit of buffer d that leaves   *)
(* it with lc lines and reports the resulting affected lines a .. b.       *)
(***************************************************************************)
Changed(d, lc, a, b) ==
    /\ next_source_id <= MaxSources
    /\ line_count' = [line_count EXCEPT ![d] = lc]
    /\ changed_lines' = [changed_lines EXCEPT
                             ![d] = IF d \in tracked
                                    THEN MarkChangedLines(@, lc) ELSE @]
    /\ sources' = (IF syntax_highlight_timer # 0
                   THEN CancelTimer(sources, syntax_highlight_timer)
                   ELSE sources)
                  \cup {[id |-> next_source_id, buf |-> d]}
    /\ syntax_highlight_timer' = next_source_id
    /\ next_source_id' = next_source_id + 1
    /\ burstEdits' = [burstEdits EXCEPT
                          ![d] = IF PendingFor(d) = {} THEN 1 ELSE @ + 1]
    /\ burstPasses' = [burstPasses EXCEPT
                           ![d] = IF PendingFor(d) = {} THEN 0 ELSE @]
    /\ interfered' = [e \in Docs |->
                          IF e = d THEN (PendingFor(d) # {} /\ interfered[d])
                          ELSE interfered[e]
                               \/ (PendingFor(e) # {}
                                   /\ \A s \in PendingFor(e) : s \notin sources')]
    /\ affected' = [affected EXCEPT ![d] = @ \cup a .. b]
    /\ event' = Event("edit", d, next_source_id,
                      {s \in sources : s.buf # d /\ s \notin sources'},
                      d \in open, NoPass, FALSE, {})
    /\ fire_affected' = {}
    /\ UNCHANGED <<open, tracked, last_pass, fired>>

\* Text inserted at line a, with k line breaks in it: lines a .. a + k result.
InsertText(d, a, k) ==
    /\ d \in open
    /\ a \in 0 .. line_count[d] - 1
    /\ line_count[d] + k <= MaxLines
    /\ Changed(d, line_count[d] + k, a, a + k)

\* The text from line a to line b deleted: the two ends join in line a.
DeleteText(d, a, b) ==
    /\ d \in open
    /\ a \in 0 .. line_count[d] - 1
    /\ b \in a .. line_count[d] - 1
    /\ Changed(d, line_count[d] - (b - a), a, a)

(***************************************************************************)
(* main.rs, the closure given to glib::timeout_add_local_once, when the    *)
(* pending source s fires.                                                 *)
(***************************************************************************)
TimerFire(s) ==
    LET d == s.buf
        ran == TimerRunsPass(d)
        pass == apply_incremental_highlighting(line_count[d], changed_lines[d])
    IN  /\ s \in sources
        /\ sources' = sources \ {s}
        /\ last_pass' = [last_pass EXCEPT
                             ![d] = IF ran /\ pass.kind # "none" THEN pass ELSE @]
        /\ burstPasses' = [burstPasses EXCEPT
                               ![d] = IF ran /\ pass.kind # "none" THEN @ + 1 ELSE @]
        /\ changed_lines' = [changed_lines EXCEPT
                                 ![d] = IF d \in tracked THEN clear(@) ELSE @]
        /\ affected' = [affected EXCEPT ![d] = IF d \in tracked THEN {} ELSE @]
        /\ syntax_highlight_timer' = TimerHandleAfterFire
        /\ fired' = [fired EXCEPT ![s.id] = @ + 1]
        /\ fire_affected' = affected[d]
        /\ event' = Event("fire", d, s.id, {}, d \in open,
                          IF ran THEN pass ELSE NoPass,
                          changed_lines'[d] # changed_lines[d], {})
        /\ UNCHANGED <<open, tracked, line_count, next_source_id, burstEdits,
                       interfered>>

(***************************************************************************)
(* tab_manager.rs, close_tab: the page and the buffer's path go; the       *)
(* tracker and the timer stay.                                             *)
(***************************************************************************)
CloseTab(d) ==
    /\ d \in open
    /\ open' = open \ {d}
    /\ event' = Event("close", d, 0, {}, TRUE, NoPass, FALSE, {})
    /\ UNCHANGED <<tracked, line_count, changed_lines, syntax_highlight_timer,
                   sources, next_source_id, last_pass, burstEdits, burstPasses,
                   interfered, affected, fired>>
    /\ fire_affected' = {}

(***************************************************************************)
(* actions.rs, settings_action: a theme change calls highlight_closure on  *)
(* the buffer of every page.                                               *)
(***************************************************************************)
ThemeChange ==
    /\ open # {}
    /\ last_pass' = [d \in Docs |->
                         IF d \in open
                         THEN highlight_closure(d, line_count[d], changed_lines[d])
                         ELSE last_pass[d]]
    /\ event' = Event("theme", CHOOSE d \in open : TRUE, 0, {}, TRUE, NoPass,
                      FALSE,
                      {d \in open :
                           RequestedPass(d, line_count[d], changed_lines[d]).kind
                               # "full"})
    /\ UNCHANGED <<open, tracked, line_count, changed_lines,
                   syntax_highlight_timer, sources, next_source_id, burstEdits,
                   burstPasses, interfered, affected, fired>>
    /\ fire_affected' = {}

SchedNext ==
    \/ \E d \in Docs, n \in 1 .. MaxLines : OpenTab(d, n)
    \/ \E d \in Docs, a \in 0 .. MaxLines - 1, k \in 0 .. MaxLines - 1 :
           InsertText(d, a, k)
    \/ \E d \in Docs, a, b \in 0 .. MaxLines - 1 : DeleteText(d, a, b)
    \/ \E s \in sources : TimerFire(s)
    \/ \E d \in Docs : CloseTab(d)
    \/ ThemeChange

(***************************************************************************)
(* syntax_highlighting.rs, find_matching_bracket.                          *)
(***************************************************************************)
MaxBracketLen == 4

BracketChars == {"(", ")", "[", "]", "a"}

ExampleBracketTexts ==
    { <<"(", "a", "(", "b", ")", "c", ")">>, <<"(", "a", "]">>,
      <<"{", "(", "}", ")", "}">> }

BracketTexts == SeqsUpTo(BracketChars, MaxBracketLen) \cup ExampleBracketTexts

open_bracket(ch) ==
    CASE ch \in {"(", ")"} -> "("
      [] ch \in {"[", "]"} -> "["
      [] ch \in {"{", "}"} -> "{"
      [] OTHER -> ""

close_bracket(ch) ==
    CASE ch \in {"(", ")"} -> ")"
      [] ch \in {"[", "]"} -> "]"
      [] ch \in {"{", "}"} -> "}"
      [] OTHER -> ""

forward(ch) == ch \in {"(", "[", "{"}

\* while search_iter.forward_char(): false once the end iterator is reached.
RECURSIVE ScanForward(_, _, _, _, _)
ScanForward(t, o, c, i, stack_depth) ==
    IF i + 1 >= Len(t) THEN -1
    ELSE LET current_char == CharAt(t, i + 1)
         IN  IF current_char = o
             THEN ScanForward(t, o, c, i + 1, stack_depth + 1)
             ELSE IF current_char = c
                  THEN IF stack_depth - 1 = 0 THEN i + 1
                       ELSE ScanForward(t, o, c, i + 1, stack_depth - 1)
                  ELSE ScanForward(t, o, c, i + 1, stack_depth)

\* A backward scan that stops at the first opening bracket, whatever is nested.
NearestBefore(t, o, c, i, stack_depth) ==
    LET Q == {q \in 0 .. i - 1 : CharAt(t, q) = o}
    IN  IF Q = {} THEN -1 ELSE SetMax(Q)

\* while search_iter.backward_char(): false at the start iterator.
RECURSIVE ScanBackward(_, _, _, _, _)
ScanBackward(t, o, c, i, stack_depth) ==
    IF i = 0 THEN -1
    ELSE LET current_char == CharAt(t, i - 1)
         IN  IF current_char = c
             THEN ScanBackward(t, o, c, i - 1, stack_depth + 1)
             ELSE IF current_char = o
                  THEN IF stack_depth - 1 = 0 THEN i - 1
                       ELSE ScanBackward(t, o, c, i - 1, stack_depth - 1)
                  ELSE ScanBackward(t, o, c, i - 1, stack_depth)

\* A matcher that takes the first counterpart, whatever is nested before it.
FirstCounterpart(t, p) ==
    LET ch == CharAt(t, p)
    IN  IF open_bracket(ch) = "" THEN -1
        ELSE IF forward(ch)
             THEN LET Q == {q \in p + 1 .. Len(t) - 1 : CharAt(t, q) = close_bracket(ch)}
                  IN  IF Q = {} THEN -1 ELSE SetMin(Q)
             ELSE LET Q == {q \in 0 .. p - 1 : CharAt(t, q) = open_bracket(ch)}
                  IN  IF Q = {} THEN -1 ELSE SetMax(Q)

find_matching_bracket(t, p) ==
    LET char_at_iter == CharAt(t, p)
    IN  IF open_bracket(char_at_iter) = "" THEN -1
        ELSE IF forward(char_at_iter)
             THEN ScanForward(t, open_bracket(char_at_iter),
                              close_bracket(char_at_iter), p, 1)
             ELSE ScanBackward(t, open_bracket(char_at_iter),
                               close_bracket(char_at_iter), p, 1)

BracketInit ==
    /\ br_text \in BracketTexts
    /\ br_iter \in 0 .. Len(br_text)
    /\ br_called = FALSE
    /\ br_match = -1

FindMatchingBracket ==
    /\ ~br_called
    /\ br_called' = TRUE
    /\ br_match' = find_matching_bracket(br_text, br_iter)
    /\ UNCHANGED <<br_text, br_iter>>

(***************************************************************************)
(* search.rs: the text of a buffer is a sequence of characters, a position *)
(* is a character offset, and an Option<(start, end)> is a record.         *)
(***************************************************************************)
MaxTextLen == 3
MaxSearchLen == 2

None == [some |-> FALSE, start |-> 0, end |-> 0]
Some(a, b) == [some |-> TRUE, start |-> a, end |-> b]

TextChars == {"a", " ", "é"}
PatternChars == TextChars \cup {"A"}

ExampleTexts ==
    { <<"x", "n", "e", "e", "d", "l", "e", "x">>,
      <<"c", "o", "n", "c", "a", "t", "e", "n", "a", "t", "e", " ", "c", "a", "t">> }

ExampleSearchTexts == { <<"n", "e", "e", "d", "l", "e">>, <<"c", "a", "t">> }

Texts == SeqsUpTo(TextChars, MaxTextLen) \cup ExampleTexts

SearchTexts ==
    (SeqsUpTo(PatternChars, MaxSearchLen) \ {<<>>})
        \cup ExampleSearchTexts \cup {<<"(">>}

Replacements == {<<>>, <<"b", "b">>, <<"a", " ", "a">>}

\* The characters Pango counts as part of a word.
WordChars == {"a", "A", "b", "é", "c", "d", "e", "l", "n", "o", "t", "x"}

\* Case folding, for TextSearchFlags::CASE_INSENSITIVE and the (?i) flag.
Fold(c) == IF c = "A" THEN "a" ELSE c

\* The length of the UTF-8 encoding of a character.
ByteLen(c) == IF c = "é" THEN 2 ELSE 1

RECURSIVE ByteOffset(_, _)
ByteOffset(t, i) == IF i <= 0 THEN 0 ELSE ByteOffset(t, i - 1) + ByteLen(t[i])

CharEq(x, y, mc) == IF mc THEN x = y ELSE Fold(x) = Fold(y)

MatchesAt(t, pat, i, mc) ==
    /\ i >= 0
    /\ i + Len(pat) <= Len(t)
    /\ \A k \in 1 .. Len(pat) : CharEq(t[i + k], pat[k], mc)

\* TextIter::forward_search: the first match that starts at or after from.
forward_search(t, pat, from, mc) ==
    LET S == {i \in from .. Len(t) - Len(pat) : MatchesAt(t, pat, i, mc)}
    IN  IF S = {} THEN None ELSE Some(SetMin(S), SetMin(S) + Len(pat))

\* TextIter::backward_search: the last match that ends at or before from.
backward_search(t, pat, from, mc) ==
    LET S == {i \in 0 .. from - Len(pat) : MatchesAt(t, pat, i, mc)}
    IN  IF S = {} THEN None ELSE Some(SetMax(S), SetMax(S) + Len(pat))

\* TextIter::starts_word / ends_word.
starts_word(t, i) == CharAt(t, i) \in WordChars /\ CharAt(t, i - 1) \notin WordChars
ends_word(t, i) == CharAt(t, i - 1) \in WordChars /\ CharAt(t, i) \notin WordChars

\* An iterator that forward_char leaves where it is.
StayAtCursor(t, i) == i

\* The offset after TextIter::forward_char.
forward_char(t, i) == Min(i + 1, Len(t))

\* TextBuffer::iter_at_offset and TextIter::set_offset: past the end is the end.
iter_at_offset(t, n) == IF n > Len(t) THEN Len(t) ELSE n

\* TextBuffer::text(start, end).
Text(t, a, b) == SubSeq(t, a + 1, b)

search_text_in_buffer(t, pat, start_iter, mc) == forward_search(t, pat, start_iter, mc)

search_text_in_buffer_backward(t, pat, start_iter, mc) ==
    backward_search(t, pat, start_iter, mc)

RECURSIVE search_text_in_buffer_whole_word(_, _, _, _)
search_text_in_buffer_whole_word(t, pat, iter, mc) ==
    LET m == forward_search(t, pat, iter, mc)
    IN  IF ~m.some THEN None
        ELSE IF starts_word(t, m.start) /\ ends_word(t, m.end) THEN m
        ELSE IF iter + 1 >= Len(t) THEN None
        ELSE search_text_in_buffer_whole_word(t, pat, iter + 1, mc)

RECURSIVE search_text_in_buffer_whole_word_backward(_, _, _, _)
search_text_in_buffer_whole_word_backward(t, pat, iter, mc) ==
    LET m == backward_search(t, pat, iter, mc)
    IN  IF ~m.some THEN None
        ELSE IF starts_word(t, m.start) /\ ends_word(t, m.end) THEN m
        ELSE IF iter = 0 THEN None
        ELSE search_text_in_buffer_whole_word_backward(t, pat, iter - 1, mc)

find_next_whole_word(t, ins, pat, mc) ==
    LET m == search_text_in_buffer_whole_word(t, pat, forward_char(t, ins), mc)
    IN  IF m.some THEN m ELSE search_text_in_buffer_whole_word(t, pat, 0, mc)

find_previous_whole_word(t, ins, pat, mc) ==
    LET m == search_text_in_buffer_whole_word_backward(t, pat, ins, mc)
    IN  IF m.some THEN m
        ELSE search_text_in_buffer_whole_word_backward(t, pat, Len(t), mc)

(***************************************************************************)
(* The regex crate, for the patterns of SearchTexts: every character is a  *)
(* literal but "(", which opens a group; a match is a range of bytes.      *)
(* Regex::find and Regex::replace take a character followed by "*" too,    *)
(* any number of that character: it matches at the start of every text.    *)
(***************************************************************************)
RegexNew(pattern) == \A k \in 1 .. Len(pattern) : pattern[k] # "("

IsStar(pattern) == Len(pattern) = 2 /\ pattern[2] = "*"

\* The length of the longest run of the character c at the start of t.
StarRun(t, c, mc) ==
    Cardinality({n \in 1 .. Len(t) : \A k \in 1 .. n : CharEq(t[k], c, mc)})

\* compile_regex: Regex::new(pattern) or Regex::new("(?i)" + pattern).
compile_regex(pattern, mc) == RegexNew(pattern)

\* Regex::find: the leftmost match, in bytes of the text searched.
regex_find(t, pattern, mc) ==
    LET S == {i \in 0 .. Len(t) - Len(pattern) : MatchesAt(t, pattern, i, mc)}
    IN  IF IsStar(pattern)
        THEN Some(0, ByteOffset(t, StarRun(t, pattern[1], mc)))
        ELSE IF S = {} THEN None
        ELSE Some(ByteOffset(t, SetMin(S)), ByteOffset(t, SetMin(S) + Len(pattern)))

\* The last match of Regex::find_iter, which takes the matches left to right.
RECURSIVE regex_find_iter_last(_, _, _, _, _)
regex_find_iter_last(t, pattern, mc, from, last) ==
    LET S == {i \in from .. Len(t) - Len(pattern) : MatchesAt(t, pattern, i, mc)}
    IN  IF S = {} THEN last
        ELSE regex_find_iter_last(t, pattern, mc, SetMin(S) + Len(pattern),
                 Some(ByteOffset(t, SetMin(S)),
                      ByteOffset(t, SetMin(S) + Len(pattern))))

\* Regex::replace: the leftmost match replaced (no "$" in Replacements).
regex_replace(t, pattern, mc, rep) ==
    LET S == {i \in 0 .. Len(t) - Len(pattern) : MatchesAt(t, pattern, i, mc)}
    IN  IF IsStar(pattern)
        THEN rep \o Text(t, StarRun(t, pattern[1], mc), Len(t))
        ELSE IF S = {} THEN t
        ELSE Text(t, 0, SetMin(S)) \o rep
                 \o Text(t, SetMin(S) + Len(pattern), Len(t))

find_next_regex(t, ins, pattern, mc) ==
    IF ~compile_regex(pattern, mc) THEN None
    ELSE LET cursor == forward_char(t, ins)
             mat == regex_find(Text(t, cursor, Len(t)), pattern, mc)
             wrapped == regex_find(t, pattern, mc)
         IN  IF mat.some
             THEN Some(iter_at_offset(t, cursor + mat.start),
                       iter_at_offset(t, cursor + mat.end))
             ELSE IF wrapped.some
                  THEN Some(iter_at_offset(t, wrapped.start),
                            iter_at_offset(t, wrapped.end))
                  ELSE None

find_previous_regex(t, ins, pattern, mc) ==
    IF ~compile_regex(pattern, mc) THEN None
    ELSE LET mat == regex_find_iter_last(Text(t, 0, ins), pattern, mc, 0, None)
             wrapped == regex_find_iter_last(t, pattern, mc, 0, None)
         IN  IF mat.some
             THEN Some(iter_at_offset(t, mat.start), iter_at_offset(t, mat.end))
             ELSE IF wrapped.some
                  THEN Some(iter_at_offset(t, wrapped.start),
                            iter_at_offset(t, wrapped.end))
                  ELSE None

find_next_advanced(t, ins, pat, mc, ww, re) ==
    IF re THEN find_next_regex(t, ins, pat, mc)
    ELSE IF ww THEN find_next_whole_word(t, ins, pat, mc)
    ELSE LET m == search_text_in_buffer(t, pat, forward_char(t, ins), mc)
         IN  IF m.some THEN m ELSE search_text_in_buffer(t, pat, 0, mc)

find_previous_advanced(t, ins, pat, mc, ww, re) ==
    IF re THEN find_previous_regex(t, ins, pat, mc)
    ELSE IF ww THEN find_previous_whole_word(t, ins, pat, mc)
    ELSE LET m == search_text_in_buffer_backward(t, pat, ins, mc)
         IN  IF m.some THEN m
             ELSE search_text_in_buffer_backward(t, pat, Len(t), mc)

(***************************************************************************)
(* A buffer with its two marks; TextBuffer::delete and TextBuffer::insert  *)
(* move the marks (both have right gravity).                               *)
(***************************************************************************)
Buffer(t, ins, bnd) == [text |-> t, insert |-> ins, bound |-> bnd]

MarkAfterDelete(m, a, b) == IF m <= a THEN m ELSE IF m >= b THEN m - (b - a) ELSE a
MarkAfterInsert(m, p, n) == IF m >= p THEN m + n ELSE m

buffer_delete(buf, a, b) ==
    [text |-> Text(buf.text, 0, a) \o Text(buf.text, b, Len(buf.text)),
     insert |-> MarkAfterDelete(buf.insert, a, b),
     bound |-> MarkAfterDelete(buf.bound, a, b)]

\* An insertion made at the start of the buffer.
InsertAtStart(buf, p, txt) ==
    [text |-> txt \o buf.text,
     insert |-> buf.insert + Len(txt),
     bound |-> buf.bound + Len(txt)]

buffer_insert(buf, p, txt) ==
    [text |-> Text(buf.text, 0, p) \o txt \o Text(buf.text, p, Len(buf.text)),
     insert |-> MarkAfterInsert(buf.insert, p, Len(txt)),
     bound |-> MarkAfterInsert(buf.bound, p, Len(txt))]

\* replace_selection_advanced: the buffer it leaves.
replace_selection_advanced(buf, pat, rep, re) ==
    IF buf.insert = buf.bound THEN buf
    ELSE LET start == Min(buf.insert, buf.bound)
             end == Max(buf.insert, buf.bound)
             matched_text == Text(buf.text, start, end)
         IN  IF re
             THEN IF compile_regex(pat, TRUE)
                  THEN IF regex_find(matched_text, pat, TRUE).some
                       THEN buffer_insert(buffer_delete(buf, start, end), start,
                                regex_replace(matched_text, pat, TRUE, rep))
                       ELSE buf
                  ELSE buffer_insert(buffer_delete(buf, start, end), start, rep)
             ELSE buffer_insert(buffer_delete(buf, start, end), start, rep)

\* The collection loop of replace_all_simple: iter = end_match after a match.
RECURSIVE CollectSimple(_, _, _, _)
CollectSimple(t, pat, mc, iter) ==
    LET m == forward_search(t, pat, iter, mc)
    IN  IF ~m.some THEN <<>>
        ELSE <<m>> \o CollectSimple(t, pat, mc, m.end)

\* The collection loop of replace_all_whole_word.
RECURSIVE CollectWholeWord(_, _, _, _)
CollectWholeWord(t, pat, mc, iter) ==
    LET m == forward_search(t, pat, iter, mc)
    IN  IF ~m.some THEN <<>>
        ELSE (IF starts_word(t, m.start) /\ ends_word(t, m.end) THEN <<m>> ELSE <<>>)
                 \o CollectWholeWord(t, pat, mc, m.end)

\* The collection loop of replace_all_regex, while iter is before the end.
RECURSIVE CollectRegex(_, _, _, _)
CollectRegex(t, pattern, mc, iter) ==
    IF iter >= Len(t) THEN <<>>
    ELSE LET mat == regex_find(Text(t, iter, Len(t)), pattern, mc)
         IN  IF ~mat.some THEN <<>>
             ELSE <<Some(iter + mat.start, iter + mat.end)>>
                      \o CollectRegex(t, pattern, mc, iter_at_offset(t, iter + mat.end))

\* for (start_offset, end_offset) in matches.iter().rev(): delete, insert.
RECURSIVE ReplaceReversed(_, _, _, _)
ReplaceReversed(buf, matches, k, rep) ==
    IF k = 0 THEN buf
    ELSE LET a == iter_at_offset(buf.text, matches[k].start)
             b == iter_at_offset(buf.text, matches[k].end)
         IN  ReplaceReversed(buffer_insert(buffer_delete(buf, a, b), a, rep),
                             matches, k - 1, rep)

\* The same replacements made first match first.
RECURSIVE ReplaceInOrder(_, _, _, _)
ReplaceInOrder(buf, matches, k, rep) ==
    IF k > Len(matches) THEN buf
    ELSE LET a == iter_at_offset(buf.text, matches[k].start)
             b == iter_at_offset(buf.text, matches[k].end)
         IN  ReplaceInOrder(buffer_insert(buffer_delete(buf, a, b), a, rep),
                            matches, k + 1, rep)

\* The replacement loop of replace_all_regex.
RECURSIVE ReplaceReversedRegex(_, _, _, _, _, _)
ReplaceReversedRegex(buf, matches, k, pattern, mc, rep) ==
    IF k = 0 THEN buf
    ELSE LET a == iter_at_offset(buf.text, matches[k].start)
             b == iter_at_offset(buf.text, matches[k].end)
             matched_text == Text(buf.text, a, b)
             actual_replacement == regex_replace(matched_text, pattern, mc, rep)
         IN  ReplaceReversedRegex(
                 buffer_insert(buffer_delete(buf, a, b), a, actual_replacement),
                 matches, k - 1, pattern, mc, rep)

Replaced(buf, n) == [buffer |-> buf, count |-> n]

\* The matches of replace_all_simple replaced first match first.
ReplaceAllSimpleInOrder(buf, pat, rep, mc) ==
    LET matches == CollectSimple(buf.text, pat, mc, 0)
    IN  Replaced(ReplaceInOrder(buf, matches, 1, rep), Len(matches))

replace_all_simple(buf, pat, rep, mc) ==
    LET matches == CollectSimple(buf.text, pat, mc, 0)
    IN  Replaced(ReplaceReversed(buf, matches, Len(matches), rep), Len(matches))

replace_all_whole_word(buf, pat, rep, mc) ==
    LET matches == CollectWholeWord(buf.text, pat, mc, 0)
    IN  Replaced(ReplaceReversed(buf, matches, Len(matches), rep), Len(matches))

replace_all_regex(buf, pattern, rep, mc) ==
    IF ~compile_regex(pattern, mc) THEN Replaced(buf, 0)
    ELSE LET matches == CollectRegex(buf.text, pattern, mc, 0)
         IN  Replaced(ReplaceReversedRegex(buf, matches, Len(matches), pattern,
                                           mc, rep),
                      Len(matches))

replace_all_advanced(buf, pat, rep, mc, ww, re) ==
    IF re THEN replace_all_regex(buf, pat, rep, mc)
    ELSE IF ww THEN replace_all_whole_word(buf, pat, rep, mc)
    ELSE replace_all_simple(buf, pat, rep, mc)

(***************************************************************************)
(* The calls of the four functions, each on the arguments and the buffer   *)
(* of the initial state.                                                   *)
(***************************************************************************)
SearchIdle ==
    /\ s_text = <<>>
    /\ s_insert = 0
    /\ s_bound = 0
    /\ search_text = <<"a">>
    /\ replacement_text = <<>>
    /\ match_case = TRUE
    /\ whole_word = FALSE
    /\ use_regex = FALSE
    /\ s_op = "none"
    /\ s_found = None
    /\ s_count = 0
    /\ s_text0 = <<>>
    /\ s_insert0 = 0
    /\ s_bound0 = 0

\* A buffer with a cursor and no selection, and the arguments of a find.
FindInit ==
    /\ s_text \in Texts
    /\ s_insert \in 0 .. Len(s_text)
    /\ s_bound = s_insert
    /\ search_text \in SearchTexts
    /\ replacement_text = <<>>
    /\ match_case \in BOOLEAN
    /\ whole_word \in BOOLEAN
    /\ use_regex \in BOOLEAN
    /\ s_op = "none"
    /\ s_found = None
    /\ s_count = 0
    /\ s_text0 = s_text
    /\ s_insert0 = s_insert
    /\ s_bound0 = s_bound

\* A buffer and the arguments of replace_all.
ReplaceAllInit ==
    /\ s_text \in Texts
    /\ s_insert = 0
    /\ s_bound = 0
    /\ search_text \in SearchTexts
    /\ replacement_text \in Replacements
    /\ match_case \in BOOLEAN
    /\ whole_word \in BOOLEAN
    /\ use_regex \in BOOLEAN
    /\ s_op = "none"
    /\ s_found = None
    /\ s_count = 0
    /\ s_text0 = s_text
    /\ s_insert0 = s_insert
    /\ s_bound0 = s_bound

\* A buffer within the bound with any selection, in regex mode.
RegexInit ==
    /\ s_text \in SeqsUpTo(TextChars, MaxTextLen)
    /\ s_insert \in 0 .. Len(s_text)
    /\ s_bound \in 0 .. Len(s_text)
    /\ search_text \in SearchTexts
    /\ replacement_text \in Replacements
    /\ match_case \in BOOLEAN
    /\ whole_word = FALSE
    /\ use_regex = TRUE
    /\ s_op = "none"
    /\ s_found = None
    /\ s_count = 0
    /\ s_text0 = s_text
    /\ s_insert0 = s_insert
    /\ s_bound0 = s_bound

\* A buffer within the bound with any selection, and the arguments of
\* replace_selection_advanced.
ReplaceOneInit ==
    /\ s_text \in SeqsUpTo(TextChars, MaxTextLen)
    /\ s_insert \in 0 .. Len(s_text)
    /\ s_bound \in 0 .. Len(s_text)
    /\ search_text \in SearchTexts
    /\ replacement_text \in Replacements
    /\ match_case = TRUE
    /\ whole_word = FALSE
    /\ use_regex \in BOOLEAN
    /\ s_op = "none"
    /\ s_found = None
    /\ s_count = 0
    /\ s_text0 = s_text
    /\ s_insert0 = s_insert
    /\ s_bound0 = s_bound

FindNext ==
    /\ s_op = "none"
    /\ s_op' = "find_next"
    /\ s_found' = find_next_advanced(s_text, s_insert, search_text, match_case,
                                     whole_word, use_regex)
    /\ UNCHANGED <<s_text, s_insert, s_bound, search_text, replacement_text,
                   match_case, whole_word, use_regex, s_count, s_text0, s_insert0,
                   s_bound0>>

FindPrevious ==
    /\ s_op = "none"
    /\ s_op' = "find_previous"
    /\ s_found' = find_previous_advanced(s_text, s_insert, search_text, match_case,
                                         whole_word, use_regex)
    /\ UNCHANGED <<s_text, s_insert, s_bound, search_text, replacement_text,
                   match_case, whole_word, use_regex, s_count, s_text0, s_insert0,
                   s_bound0>>

ReplaceOne ==
    LET buf == replace_selection_advanced(Buffer(s_text, s_insert, s_bound),
                   search_text, replacement_text, use_regex)
    IN  /\ s_op = "none"
        /\ s_op' = "replace_one"
        /\ s_text' = buf.text
        /\ s_insert' = buf.insert
        /\ s_bound' = buf.bound
        /\ UNCHANGED <<search_text, replacement_text, match_case, whole_word,
                       use_regex, s_found, s_count, s_text0, s_insert0,
                   s_bound0>>

ReplaceAll ==
    LET r == replace_all_advanced(Buffer(s_text, s_insert, s_bound), search_text,
                 replacement_text, match_case, whole_word, use_regex)
    IN  /\ s_op = "none"
        /\ s_op' = "replace_all"
        /\ s_text' = r.buffer.text
        /\ s_insert' = r.buffer.insert
        /\ s_bound' = r.buffer.bound
        /\ s_count' = r.count
        /\ UNCHANGED <<search_text, replacement_text, match_case, whole_word,
                       use_regex, s_found, s_text0, s_insert0,
                   s_bound0>>

(***************************************************************************)
(* syntax_highlighting.rs: the two highlight passes.  The buffer is a      *)
(* sequence of characters, "\n" ending a line; its tags are the set of     *)
(* <<offset, tag name>> of the tagged characters.  The tokenizer stands    *)
(* for syntect's HighlightLines on a grammar with plain text and a block   *)
(* comment "{" .. "}" that may span lines: highlight_line cuts the text it *)
(* is given where the scope changes, the line break being part of the text *)
(* when the caller passes it.                                              *)
(***************************************************************************)
MaxHlLen == 4

HlChars == {"a", "{", "}", "\n"}

HlTexts == SeqsUpTo(HlChars, MaxHlLen)

\* The parse state the previous pass ended in.
HighlightLinesKept == hl_h

\* HighlightLines::new: the parse state at the start of a pass.
HighlightLines_new == "base"

\* One character in a parse state: its style, whether the scope changes
\* before it and after it, and the state after it.
Step(st, c) ==
    IF st = "comment"
    THEN [style |-> "fg_comment", before |-> FALSE, after |-> c = "}",
          next |-> IF c = "}" THEN "base" ELSE "comment"]
    ELSE IF c = "{"
         THEN [style |-> "fg_comment", before |-> TRUE, after |-> FALSE,
               next |-> "comment"]
         ELSE [style |-> "fg_plain", before |-> FALSE, after |-> FALSE,
               next |-> "base"]

\* The parse state after the text of a line.
RECURSIVE StateAfter(_, _, _)
StateAfter(st, line, i) ==
    IF i > Len(line) THEN st ELSE StateAfter(Step(st, line[i]).next, line, i + 1)

\* The (style, chunk) ranges of the line from its i-th character on; a chunk
\* is kept as its style and its number of characters.
RECURSIVE Ranges(_, _, _)
Ranges(st, line, i) ==
    IF i > Len(line) THEN <<>>
    ELSE LET s == Step(st, line[i])
             rest == Ranges(s.next, line, i + 1)
         IN  IF i < Len(line) /\ ~s.after /\ ~Step(s.next, line[i + 1]).before
             THEN <<[style |-> s.style, count |-> 1 + Head(rest).count]>>
                      \o Tail(rest)
             ELSE <<[style |-> s.style, count |-> 1]>> \o rest

\* h.highlight_line(line, ps): the ranges, and h afterwards.
highlight_line(h, line) ==
    [ranges |-> Ranges(h, line, 1), h |-> StateAfter(h, line, 1)]

\* The offsets of the line breaks, and buffer.line_count().
Breaks(t) == {i \in 0 .. Len(t) - 1 : t[i + 1] = "\n"}

hl_line_count(t) == Cardinality(Breaks(t)) + 1

\* buffer.iter_at_line(n) as an offset, for n < line_count.
iter_at_line(t, n) ==
    IF n = 0 THEN 0
    ELSE 1 + CHOOSE b \in Breaks(t) : Cardinality({c \in Breaks(t) : c < b}) = n - 1

\* The first offset after line n: the next line's start or the end iterator.
LineEnd(t, n) == IF n + 1 < hl_line_count(t) THEN iter_at_line(t, n + 1) ELSE Len(t)

\* The number of characters of line n without its line break.
CharsInLine(t, n) ==
    LineEnd(t, n) - iter_at_line(t, n) - (IF n + 1 < hl_line_count(t) THEN 1 ELSE 0)

\* buffer.iter_at_line_offset(n, off): None past the end of the line.
iter_at_line_offset(t, n, off) ==
    IF n >= hl_line_count(t) \/ off > CharsInLine(t, n) THEN None
    ELSE Some(iter_at_line(t, n) + off, iter_at_line(t, n) + off)

\* str::lines(): the lines without their line breaks, and no last empty line.
lines(t) ==
    LET n == IF t = <<>> \/ t[Len(t)] = "\n" THEN hl_line_count(t) - 1
             ELSE hl_line_count(t)
    IN  [k \in 1 .. n |->
            SubSeq(t, iter_at_line(t, k - 1) + 1,
                   iter_at_line(t, k - 1) + CharsInLine(t, k - 1))]

\* A removal that takes the tags of the whole buffer.
RemoveEverywhere(tags, a, b) == {}

\* buffer.remove_tag for every "fg_" tag between two offsets.
remove_tags(tags, a, b) == {x \in tags : x[1] < a \/ x[1] >= b}

\* buffer.apply_tag.
apply_tag(tags, tag, a, b) == tags \cup {<<o, tag>> : o \in a .. b - 1}

\* The loop over the ranges of one line: tags the chunks both ends of which
\* iter_at_line_offset finds.
RECURSIVE ApplyRanges(_, _, _, _, _, _)
ApplyRanges(t, tags, line_num, ranges, k, current_offset) ==
    IF k > Len(ranges) THEN tags
    ELSE LET start_iter == iter_at_line_offset(t, line_num, current_offset)
             end_iter == iter_at_line_offset(t, line_num,
                                             current_offset + ranges[k].count)
             applied == IF start_iter.some /\ end_iter.some
                        THEN apply_tag(tags, ranges[k].style, start_iter.start,
                                       end_iter.start)
                        ELSE tags
         IN  ApplyRanges(t, applied, line_num, ranges, k + 1,
                         current_offset + ranges[k].count)

\* The loop of apply_syntax_highlighting over text.lines().
RECURSIVE FullLoop(_, _, _, _, _)
FullLoop(t, ls, line_num, h, tags) ==
    IF line_num >= Len(ls) THEN [tags |-> tags, h |-> h]
    ELSE LET r == highlight_line(h, ls[line_num + 1])
         IN  FullLoop(t, ls, line_num + 1, r.h,
                      ApplyRanges(t, tags, line_num, r.ranges, 1, 0))

apply_syntax_highlighting(t, tags) ==
    FullLoop(t, lines(t), 0, HighlightLines_new, remove_tags(tags, 0, Len(t)))

\* The loop of apply_incremental_syntax_highlighting over the lines of the buffer.
RECURSIVE IncrementalLoop(_, _, _, _, _, _)
IncrementalLoop(t, line_num, start_line, end_line, h, tags) ==
    IF line_num >= hl_line_count(t) THEN [tags |-> tags, h |-> h]
    ELSE LET line_text == SubSeq(t, iter_at_line(t, line_num) + 1,
                                 LineEnd(t, line_num))
             r == highlight_line(h, line_text)
         IN  IncrementalLoop(t, line_num + 1, start_line, end_line, r.h,
                 IF line_num >= start_line /\ line_num <= end_line
                 THEN ApplyRanges(t, tags, line_num, r.ranges, 1, 0)
                 ELSE tags)

apply_incremental_syntax_highlighting_to(t, tags, start_line0, end_line0) ==
    LET start_line == Max(start_line0, 0)
        end_line == Min(end_line0, hl_line_count(t) - 1)
    IN  IF start_line > end_line THEN [tags |-> tags, h |-> hl_h]
        ELSE IncrementalLoop(t, 0, start_line, end_line, HighlightLines_new,
                 remove_tags(tags, iter_at_line(t, start_line),
                             LineEnd(t, end_line)))

\* The offsets of the lines a pass over start_line .. end_line works on, from
\* the first up to and without the last; none when the range is empty.
Window(t, start_line0, end_line0) ==
    LET start_line == Max(start_line0, 0)
        end_line == Min(end_line0, hl_line_count(t) - 1)
    IN  IF start_line > end_line THEN <<0, 0>>
        ELSE <<iter_at_line(t, start_line), LineEnd(t, end_line)>>

\* A lookup that finds no tag.
NotFound(table, tag_name) == FALSE

\* tag_table.lookup(&tag_name).
lookup(table, tag_name) == \E k \in 1 .. Len(table) : table[k] = tag_name

\* The tag of a chunk: the tag of that name in the table, or else a new tag
\* that is added to the table.
lookup_or_add(table, tag_name) ==
    IF lookup(table, tag_name) THEN table ELSE Append(table, tag_name)

\* The table after the chunks tagged between two offsets, taken in order.
RECURSIVE TableAfter(_, _, _, _)
TableAfter(table, tags, o, end) ==
    IF o >= end THEN table
    ELSE LET names == {x[2] : x \in {y \in tags : y[1] = o}}
         IN  TableAfter(IF names = {} THEN table
                        ELSE lookup_or_add(table, CHOOSE n \in names : TRUE),
                        tags, o + 1, end)

\* The tags a buffer may carry when a pass starts: none, or every character
\* tagged by an earlier pass over other text.
StaleTags(t) == {<<o, "fg_comment">> : o \in 0 .. Len(t) - 1}

HlIdle ==
    /\ hl_text = <<>>
    /\ hl_line = 0
    /\ hl_tags = {}
    /\ hl_before = {}
    /\ hl_ops = <<>>
    /\ hl_h = "base"
    /\ hl_range = <<0, 0>>
    /\ hl_table = <<>>

\* A document, its edited line, and the tags it carries.
HlInit ==
    /\ hl_text \in HlTexts
    /\ hl_line \in 0 .. hl_line_count(hl_text) - 1
    /\ hl_tags \in {{}, StaleTags(hl_text)}
    /\ hl_before = hl_tags
    /\ hl_ops = <<>>
    /\ hl_h = "base"
    /\ hl_range = <<0, 0>>
    /\ hl_table = IF hl_tags = {} THEN <<>> ELSE <<"fg_comment">>

\* The full pass, up to twice in a row.
FullPass ==
    LET r == apply_syntax_highlighting(hl_text, hl_tags)
    IN  /\ Len(hl_ops) < 2
        /\ hl_tags' = r.tags
        /\ hl_h' = r.h
        /\ hl_before' = hl_tags
        /\ hl_ops' = Append(hl_ops, "full")
        /\ hl_table' = TableAfter(hl_table, r.tags, 0, Len(hl_text))
        /\ UNCHANGED <<hl_text, hl_line, hl_range>>

\* The incremental pass over a range of lines that holds the edited line.
IncrementalPass(start_line, end_line) ==
    LET r == apply_incremental_syntax_highlighting_to(hl_text, hl_tags,
                                                      start_line, end_line)
        w == Window(hl_text, start_line, end_line)
    IN  /\ Len(hl_ops) < 2
        /\ hl_tags' = r.tags
        /\ hl_h' = r.h
        /\ hl_before' = hl_tags
        /\ hl_ops' = Append(hl_ops, "incremental")
        /\ hl_range' = <<start_line, end_line>>
        /\ hl_table' = TableAfter(hl_table, r.tags, w[1], w[2])
        /\ UNCHANGED <<hl_text, hl_line>>

HlNext ==
    \/ FullPass
    \/ \E start_line \in {hl_line - ContextLines, hl_line},
          end_line \in {hl_line, hl_line + ContextLines} :
           IncrementalPass(start_line, end_line)

(***************************************************************************)
(* change_tracker.rs: a ChangeTracker and the calls of its methods.        *)
(***************************************************************************)
MaxTrackerLine == 2

TrackerLines == 0 .. MaxTrackerLine

InsertedTexts == {"a", "a\nb"}

\* for line in start_line..=end_line { self.changed_lines.insert(line); }
insert_lines(set, start_line, end_line) == set \cup start_line .. end_line

\* take_changed_lines that leaves the set in place.
TakeAndKeep(set) == [returned |-> set, changed_lines |-> set]

\* std::mem::take(&mut self.changed_lines): the set returned, the set left.
take_changed_lines(set) == [returned |-> set, changed_lines |-> {}]

\* has_changes of a tracker whose changed_lines is the given set.
tracker_has_changes(set) == ~(set = {})

Call(op, start_line, end_line) ==
    [op |-> op, start_line |-> start_line, end_line |-> end_line]

NoCall == Call("none", 0, 0)

TrackerNew ==
    /\ tr_changed_lines = {}
    /\ tr_last_inserted_text = ""
    /\ tr_last_insert_position = <<>>
    /\ tr_returned = {}
    /\ tr_recorded = {}
    /\ tr_before = {}
    /\ tr_call = NoCall
    /\ tr_prev_call = NoCall

record_insertion(start_line, line_offset, end_line, text) ==
    /\ tr_changed_lines' = insert_lines(tr_changed_lines, start_line, end_line)
    /\ tr_last_inserted_text' = text
    /\ tr_last_insert_position' = <<start_line, line_offset>>
    /\ tr_recorded' = tr_recorded \cup start_line .. end_line
    /\ tr_before' = tr_changed_lines
    /\ tr_prev_call' = tr_call
    /\ tr_call' = Call("record_insertion", start_line, end_line)
    /\ UNCHANGED tr_returned

record_deletion(start_line, end_line) ==
    /\ tr_changed_lines' = insert_lines(tr_changed_lines, start_line, end_line)
    /\ tr_recorded' = tr_recorded \cup start_line .. end_line
    /\ tr_before' = tr_changed_lines
    /\ tr_prev_call' = tr_call
    /\ tr_call' = Call("record_deletion", start_line, end_line)
    /\ UNCHANGED <<tr_last_inserted_text, tr_last_insert_position, tr_returned>>

TakeChangedLines ==
    LET r == take_changed_lines(tr_changed_lines)
    IN  /\ tr_returned' = r.returned
        /\ tr_changed_lines' = r.changed_lines
        /\ tr_recorded' = {}
        /\ tr_before' = tr_changed_lines
        /\ tr_prev_call' = tr_call
        /\ tr_call' = Call("take_changed_lines", 0, 0)
        /\ UNCHANGED <<tr_last_inserted_text, tr_last_insert_position>>

TrackerNext ==
    \/ \E start_line \in TrackerLines, end_line \in TrackerLines,
          line_offset \in 0 .. 1, text \in InsertedTexts :
           /\ start_line <= end_line
           /\ record_insertion(start_line, line_offset, end_line, text)
    \/ \E start_line \in TrackerLines, end_line \in TrackerLines :
           /\ start_line <= end_line
           /\ record_deletion(start_line, end_line)
    \/ TakeChangedLines

(***************************************************************************)
(* search.rs: find_next_advanced and find_previous_advanced one search at  *)
(* a time, and the loops of search_text_in_buffer_whole_word and of        *)
(* search_text_in_buffer_whole_word_backward one iteration at a time.      *)
(***************************************************************************)
MaxScanLen == 3

ScanTexts == SeqsUpTo(TextChars, MaxScanLen)

ScanSearchTexts == {<<"a">>, <<" ">>, <<"a", "a">>, <<"(">>}

\* An iterator that the loop leaves where it is.
ScanStay(op, i) == i

\* iter.forward_char() and iter.backward_char() in the loops.
ScanAdvance(op, i) == IF op = "find_next" THEN i + 1 ELSE i - 1

\* forward_char or backward_char returned false: the loop breaks.
AtBoundary(op, t, i) == IF op = "find_next" THEN i + 1 >= Len(t) ELSE i = 0

\* The one search made from an iterator: forward_search, backward_search,
\* Regex::find on the text after it, the last of Regex::find_iter before it.
SearchFrom(op, t, pat, i, mc, re) ==
    IF re
    THEN LET mat == IF op = "find_next"
                    THEN regex_find(Text(t, i, Len(t)), pat, mc)
                    ELSE regex_find_iter_last(Text(t, 0, i), pat, mc, 0, None)
             base == IF op = "find_next" THEN i ELSE 0
         IN  IF mat.some
             THEN Some(iter_at_offset(t, base + mat.start),
                       iter_at_offset(t, base + mat.end))
             ELSE None
    ELSE IF op = "find_next" THEN forward_search(t, pat, i, mc)
    ELSE backward_search(t, pat, i, mc)

ScanIdle ==
    /\ sc_pc = "idle"
    /\ sc_iter = 0
    /\ sc_pass = 0
    /\ sc_steps = 0
    /\ sc_prev_iter = 0

\* A buffer, its cursor and the arguments of a find.
ScanInit ==
    /\ s_text \in ScanTexts
    /\ s_insert \in 0 .. Len(s_text)
    /\ s_bound = s_insert
    /\ search_text \in ScanSearchTexts
    /\ replacement_text = <<>>
    /\ match_case = TRUE
    /\ whole_word \in BOOLEAN
    /\ use_regex \in BOOLEAN
    /\ s_op = "none"
    /\ s_found = None
    /\ s_count = 0
    /\ s_text0 = s_text
    /\ s_insert0 = s_insert
    /\ s_bound0 = s_bound

\* The call: the iterator is put after the cursor (find_next) or at the
\* cursor (find_previous); a pattern that does not compile returns None.
ScanStart(op) ==
    /\ sc_pc = "idle"
    /\ s_op' = op
    /\ sc_iter' = IF op = "find_next" THEN forward_char(s_text, s_insert)
                  ELSE s_insert
    /\ sc_pc' = IF use_regex /\ ~compile_regex(search_text, match_case)
                THEN "done" ELSE "scan"
    /\ sc_prev_iter' = sc_iter'
    /\ UNCHANGED <<s_text, s_insert, s_bound, search_text, replacement_text,
                   match_case, whole_word, use_regex, s_found, s_count, s_text0,
                   s_insert0, s_bound0, sc_pass, sc_steps>>

\* One search from the iterator.  In whole-word mode a match that is not a
\* whole word moves the iterator by one character, unless it is at the
\* boundary of the document.
ScanIterate ==
    LET m == SearchFrom(s_op, s_text, search_text, sc_iter, match_case, use_regex)
        accepted == \/ use_regex
                    \/ ~whole_word
                    \/ starts_word(s_text, m.start) /\ ends_word(s_text, m.end)
    IN  /\ sc_pc = "scan"
        /\ sc_steps <= Len(s_text)
        /\ IF ~m.some
           THEN /\ sc_pc' = "exhausted"
                /\ UNCHANGED <<s_found, sc_iter, sc_steps, sc_prev_iter>>
           ELSE IF accepted
           THEN /\ sc_pc' = "done"
                /\ s_found' = m
                /\ UNCHANGED <<sc_iter, sc_steps, sc_prev_iter>>
           ELSE IF AtBoundary(s_op, s_text, sc_iter)
           THEN /\ sc_pc' = "exhausted"
                /\ UNCHANGED <<s_found, sc_iter, sc_steps, sc_prev_iter>>
           ELSE /\ sc_iter' = ScanAdvance(s_op, sc_iter)
                /\ sc_prev_iter' = sc_iter
                /\ sc_steps' = sc_steps + 1
                /\ UNCHANGED <<s_found, sc_pc>>
        /\ UNCHANGED <<s_text, s_insert, s_bound, search_text, replacement_text,
                       match_case, whole_word, use_regex, s_op, s_count, s_text0,
                       s_insert0, s_bound0, sc_pass>>

\* The search from the cursor found nothing: the one retry, from the start
\* of the buffer (find_next) or from its end (find_previous).
WrapAround ==
    /\ sc_pc = "exhausted"
    /\ sc_pass = 0
    /\ sc_pass' = 1
    /\ sc_pc' = "scan"
    /\ sc_iter' = IF s_op = "find_next" THEN 0 ELSE Len(s_text)
    /\ sc_prev_iter' = sc_iter'
    /\ sc_steps' = 0
    /\ UNCHANGED searchVars

\* The retry found nothing: the call returns None.
ReturnNone ==
    /\ sc_pc = "exhausted"
    /\ sc_pass = 1
    /\ sc_pc' = "done"
    /\ s_found' = None
    /\ UNCHANGED <<s_text, s_insert, s_bound, search_text, replacement_text,
                   match_case, whole_word, use_regex, s_op, s_count, s_text0,
                   s_insert0, s_bound0, sc_iter, sc_pass, sc_steps, sc_prev_iter>>

ScanNext ==
    \/ ScanStart("find_next")
    \/ ScanStart("find_previous")
    \/ ScanIterate
    \/ WrapAround
    \/ ReturnNone

(***************************************************************************)
(* syntax_highlighting.rs: update_bracket_highlighting, called from the    *)
(* idle callback that the mark_set handler of main.rs schedules.  The two  *)
(* stored positions are TextIters; an edit of the buffer invalidates every *)
(* TextIter made before it, and what remove_tag does with an invalid one   *)
(* is not defined: the model lets it remove nothing, or remove the tag at  *)
(* the offsets the iterators had.                                          *)
(***************************************************************************)
MaxBhLen == 3

BhChars == {"(", ")", "a"}

\* The stored pair: empty, or two offsets and whether the iterators are valid.
NoPrev == [some |-> FALSE, pos1 |-> 0, pos2 |-> 0, valid |-> TRUE]

Prev(p1, p2) == [some |-> TRUE, pos1 |-> p1, pos2 |-> p2, valid |-> TRUE]

\* An edit invalidates the stored iterators.
Invalidated(prev) == [prev EXCEPT !.valid = ~prev.some]

\* A tag stays on its characters: text put inside a tagged range is tagged.
TagsAfterInsert(tags, p) ==
    {o \in tags : o < p} \cup {o + 1 : o \in {x \in tags : x >= p}}
        \cup (IF p - 1 \in tags /\ p \in tags THEN {p} ELSE {})

TagsAfterDelete(tags, p) ==
    {o \in tags : o < p} \cup {o - 1 : o \in {x \in tags : x > p}}

\* buffer.remove_tag(&tag, &pos, &pos + 1) for the two stored positions.
remove_tag(tags, prev) == tags \ {prev.pos1, prev.pos2}

\* The tags that the removal of the previous highlights may leave.
AfterRemoval(tags, prev) ==
    IF ~prev.some THEN {tags}
    ELSE IF prev.valid THEN {remove_tag(tags, prev)}
    ELSE {tags, remove_tag(tags, prev)}

BhIdle ==
    /\ bh_text = <<>>
    /\ bh_cursor = 0
    /\ bh_tags = {}
    /\ bh_prev = NoPrev
    /\ bh_op = "none"
    /\ bh_edited = FALSE

\* A new view: an empty document or a file, the cursor at the start, no tag.
BhInit ==
    /\ bh_text \in {<<>>, <<"(", "a", ")">>}
    /\ bh_cursor = 0
    /\ bh_tags = {}
    /\ bh_prev = NoPrev
    /\ bh_op = "none"
    /\ bh_edited = FALSE

\* The cursor is put somewhere else.
MoveCursor(p) ==
    /\ p # bh_cursor
    /\ bh_cursor' = p
    /\ bh_op' = "move"
    /\ UNCHANGED <<bh_text, bh_tags, bh_prev, bh_edited>>

\* A character is typed at the cursor.
InsertAtCursor(ch) ==
    /\ Len(bh_text) < MaxBhLen
    /\ bh_text' = SubSeq(bh_text, 1, bh_cursor) \o <<ch>>
                      \o SubSeq(bh_text, bh_cursor + 1, Len(bh_text))
    /\ bh_cursor' = bh_cursor + 1
    /\ bh_tags' = TagsAfterInsert(bh_tags, bh_cursor)
    /\ bh_prev' = Invalidated(bh_prev)
    /\ bh_op' = "insert"
    /\ bh_edited' = TRUE

\* The character at offset p is deleted: p is the cursor (Delete) or the
\* offset before it (Backspace).
DeleteChar(p) ==
    /\ p \in 0 .. Len(bh_text) - 1
    /\ bh_text' = SubSeq(bh_text, 1, p) \o SubSeq(bh_text, p + 2, Len(bh_text))
    /\ bh_cursor' = p
    /\ bh_tags' = TagsAfterDelete(bh_tags, p)
    /\ bh_prev' = Invalidated(bh_prev)
    /\ bh_op' = "delete"
    /\ bh_edited' = TRUE

UpdateBracketHighlighting ==
    \E removed \in AfterRemoval(bh_tags, bh_prev) :
        LET matching_iter == find_matching_bracket(bh_text, bh_cursor)
        IN  /\ IF matching_iter >= 0
               THEN /\ bh_tags' = removed \cup {bh_cursor, matching_iter}
                    /\ bh_prev' = Prev(bh_cursor, matching_iter)
               ELSE /\ bh_tags' = removed
                    /\ bh_prev' = NoPrev
            /\ bh_op' = "update"
            /\ UNCHANGED <<bh_text, bh_cursor, bh_edited>>

BhNext ==
    \/ \E p \in 0 .. Len(bh_text) : MoveCursor(p)
    \/ \E ch \in BhChars : InsertAtCursor(ch)
    \/ \E p \in {bh_cursor - 1, bh_cursor} : DeleteChar(p)
    \/ UpdateBracketHighlighting

(***************************************************************************)
(* incremental_highlighting.rs: apply_incremental_highlighting on a buffer *)
(* of any number of lines and any dirty set; a dirty line may lie past the *)
(* last line, the buffer having lost lines since it was recorded.          *)
(***************************************************************************)
MaxWindowLines == 9

WinIdle ==
    /\ win_line_count = 1
    /\ win_changed_lines = {}
    /\ win_called = FALSE
    /\ win_pass = NoPass

WinInit ==
    /\ win_line_count \in 1 .. MaxWindowLines
    /\ win_changed_lines \in SUBSET (0 .. MaxWindowLines)
    /\ win_called = FALSE
    /\ win_pass = NoPass

ApplyIncrementalHighlighting ==
    /\ ~win_called
    /\ win_called' = TRUE
    /\ win_pass' = apply_incremental_highlighting(win_line_count, win_changed_lines)
    /\ UNCHANGED <<win_line_count, win_changed_lines>>

(***************************************************************************)
(* search.rs: replace_all_advanced and the three functions it calls, one   *)
(* iteration of a loop at a time.                                          *)
(***************************************************************************)
MaxRaLen == 3

\* The matches collected at most: more than any terminating collection makes.
MaxRaMatches == 8

RaTexts ==
    SeqsUpTo(TextChars, MaxRaLen) \cup {<<"a", "a", " ", "a", " ", "a">>}

RaSearchTexts ==
    {<<"a">>, <<"A">>, <<" ">>, <<"é">>, <<"a", "a">>, <<"a", " ", "a">>, <<"(">>,
     <<"a", "*">>}

\* The text between buffer.iter_at_offset(start) and buffer.iter_at_offset(end).
Designated(t, m) == Text(t, iter_at_offset(t, m.start), iter_at_offset(t, m.end))

\* The matches taken first to last.
Forward(n, i) == i

\* matches.iter().rev(): the index of the i-th match taken, of n.
rev(n, i) == n + 1 - i

RaIdle ==
    /\ ra_pc = "idle"
    /\ ra_iter = 0
    /\ ra_prev_iter = 0 - 1
    /\ ra_matches = <<>>
    /\ ra_designated = <<>>
    /\ ra_done = 0
    /\ ra_processed = {}
    /\ ra_log = <<>>

\* A buffer and the arguments of replace_all_advanced.
RaInit ==
    /\ s_text \in RaTexts
    /\ s_insert = 0
    /\ s_bound = 0
    /\ search_text \in RaSearchTexts
    /\ replacement_text \in Replacements
    /\ match_case \in BOOLEAN
    /\ whole_word \in BOOLEAN
    /\ use_regex \in BOOLEAN
    /\ s_op = "none"
    /\ s_found = None
    /\ s_count = 0
    /\ s_text0 = s_text
    /\ s_insert0 = s_insert
    /\ s_bound0 = s_bound

RaArgs == <<search_text, replacement_text, match_case, whole_word, use_regex,
            s_found, s_text0, s_insert0, s_bound0>>

\* The call: the function chosen sets its iterator at the start of the buffer;
\* replace_all_regex returns 0 for a pattern that does not compile.
ReplaceAllAdvanced ==
    /\ ra_pc = "idle"
    /\ s_op' = "replace_all"
    /\ ra_pc' = IF use_regex /\ ~compile_regex(search_text, match_case)
                THEN "done" ELSE "collect"
    /\ ra_iter' = 0
    /\ UNCHANGED <<s_text, s_insert, s_bound, s_count, RaArgs, ra_prev_iter, ra_matches,
                   ra_designated, ra_done, ra_processed, ra_log>>

Push(m) ==
    /\ ra_matches' = Append(ra_matches, m)
    /\ ra_designated' = Append(ra_designated, Designated(s_text, m))

\* One evaluation of the while let of replace_all_simple, and its body.
CollectSimpleStep ==
    LET m == forward_search(s_text, search_text, ra_iter, match_case)
    IN  /\ ra_pc = "collect" /\ ~use_regex /\ ~whole_word
        /\ IF m.some
           THEN /\ Push(m)
                /\ ra_iter' = m.end
                /\ ra_prev_iter' = ra_iter
                /\ UNCHANGED ra_pc
           ELSE /\ ra_pc' = "replace"
                /\ UNCHANGED <<ra_iter, ra_prev_iter, ra_matches, ra_designated>>
        /\ UNCHANGED <<s_text, s_insert, s_bound, s_op, s_count, RaArgs, ra_done,
                       ra_processed, ra_log>>

\* One evaluation of the while let of replace_all_whole_word, and its body.
CollectWholeWordStep ==
    LET m == forward_search(s_text, search_text, ra_iter, match_case)
    IN  /\ ra_pc = "collect" /\ ~use_regex /\ whole_word
        /\ IF m.some
           THEN /\ IF starts_word(s_text, m.start) /\ ends_word(s_text, m.end)
                   THEN Push(m)
                   ELSE UNCHANGED <<ra_matches, ra_designated>>
                /\ ra_iter' = m.end
                /\ ra_prev_iter' = ra_iter
                /\ UNCHANGED ra_pc
           ELSE /\ ra_pc' = "replace"
                /\ UNCHANGED <<ra_iter, ra_prev_iter, ra_matches, ra_designated>>
        /\ UNCHANGED <<s_text, s_insert, s_bound, s_op, s_count, RaArgs, ra_done,
                       ra_processed, ra_log>>

\* One evaluation of the while of replace_all_regex, and its body; the loop
\* left, begin_user_action is called.
CollectRegexStep ==
    LET mat == regex_find(Text(s_text, ra_iter, Len(s_text)), search_text,
                          match_case)
        more == ra_iter < Len(s_text) /\ mat.some
    IN  /\ ra_pc = "collect" /\ use_regex
        /\ Len(ra_matches) < MaxRaMatches
        /\ IF more
           THEN /\ Push(Some(ra_iter + mat.start, ra_iter + mat.end))
                /\ ra_iter' = iter_at_offset(s_text, ra_iter + mat.end)
                /\ ra_prev_iter' = ra_iter
                /\ UNCHANGED <<ra_pc, ra_log>>
           ELSE /\ ra_pc' = "replace"
                /\ ra_log' = Append(ra_log, <<"begin">>)
                /\ UNCHANGED <<ra_iter, ra_prev_iter, ra_matches, ra_designated>>
        /\ UNCHANGED <<s_text, s_insert, s_bound, s_op, s_count, RaArgs, ra_done,
                       ra_processed>>

\* One iteration of the for of replace_all_simple or replace_all_whole_word.
ReplaceStep ==
    LET k == rev(Len(ra_matches), ra_done + 1)
        a == iter_at_offset(s_text, ra_matches[k].start)
        b == iter_at_offset(s_text, ra_matches[k].end)
        buf == buffer_insert(buffer_delete(Buffer(s_text, s_insert, s_bound), a, b),
                             a, replacement_text)
    IN  /\ ra_pc = "replace" /\ ~use_regex
        /\ ra_done < Len(ra_matches)
        /\ s_text' = buf.text
        /\ s_insert' = buf.insert
        /\ s_bound' = buf.bound
        /\ ra_done' = ra_done + 1
        /\ ra_processed' = ra_processed \cup {k}
        /\ ra_log' = ra_log \o <<(<<"begin">>), <<"delete", k>>, <<"insert", k>>,
                                 <<"end">>>>
        /\ UNCHANGED <<s_op, s_count, RaArgs, ra_pc, ra_iter, ra_prev_iter,
                       ra_matches, ra_designated>>

\* One iteration of the for of replace_all_regex.
ReplaceRegexStep ==
    LET k == rev(Len(ra_matches), ra_done + 1)
        a == iter_at_offset(s_text, ra_matches[k].start)
        b == iter_at_offset(s_text, ra_matches[k].end)
        matched_text == Text(s_text, a, b)
        actual_replacement == regex_replace(matched_text, search_text, match_case,
                                            replacement_text)
        buf == buffer_insert(buffer_delete(Buffer(s_text, s_insert, s_bound), a, b),
                             a, actual_replacement)
    IN  /\ ra_pc = "replace" /\ use_regex
        /\ ra_done < Len(ra_matches)
        /\ s_text' = buf.text
        /\ s_insert' = buf.insert
        /\ s_bound' = buf.bound
        /\ ra_done' = ra_done + 1
        /\ ra_processed' = ra_processed \cup {k}
        /\ ra_log' = ra_log \o <<(<<"delete", k>>), <<"insert", k>>>>
        /\ UNCHANGED <<s_op, s_count, RaArgs, ra_pc, ra_iter, ra_prev_iter,
                       ra_matches, ra_designated>>

\* The for left: replace_all_regex calls end_user_action; count is returned.
ReturnCount ==
    /\ ra_pc = "replace"
    /\ ra_done = Len(ra_matches)
    /\ ra_pc' = "done"
    /\ s_count' = ra_done
    /\ ra_log' = IF use_regex THEN Append(ra_log, <<"end">>) ELSE ra_log
    /\ UNCHANGED <<s_text, s_insert, s_bound, s_op, RaArgs, ra_iter, ra_prev_iter,
                   ra_matches, ra_designated, ra_done, ra_processed>>

RaNext ==
    \/ ReplaceAllAdvanced
    \/ CollectSimpleStep
    \/ CollectWholeWordStep
    \/ CollectRegexStep
    \/ ReplaceStep
    \/ ReplaceRegexStep
    \/ ReturnCount

(***************************************************************************)
(* incremental_highlighting.rs and syntax_highlighting.rs: the incremental *)
(* pass called with lines that may lie outside the document.               *)
(***************************************************************************)
MaxRangeLines == 3

\* Line numbers from below 0 to beyond the last line, the context included.
RangeLines == (0 - ContextLines - 1) .. (MaxRangeLines + ContextLines + 1)

RgIdle ==
    /\ rg_line_count = 1
    /\ rg_lines = <<0, 0>>
    /\ rg_op = "none"
    /\ rg_pass = NoPass
    /\ rg_read = {}
    /\ rg_tagged = {}

RgInit ==
    /\ rg_line_count \in 1 .. MaxRangeLines
    /\ rg_lines \in RangeLines \X RangeLines
    /\ rg_op = "none"
    /\ rg_pass = NoPass
    /\ rg_read = {}
    /\ rg_tagged = {}

\* apply_incremental_syntax_highlighting called with start_line and end_line.
HighlightRange ==
    /\ rg_op = "none"
    /\ rg_op' = "range"
    /\ rg_pass' = apply_incremental_syntax_highlighting(rg_line_count, rg_lines[1],
                                                        rg_lines[2])
    /\ rg_read' = LinesRead(rg_line_count, rg_lines[1], rg_lines[2])
    /\ rg_tagged' = LinesTagged(rg_line_count, rg_lines[1], rg_lines[2])
    /\ UNCHANGED <<rg_line_count, rg_lines>>

\* apply_incremental_highlighting called with the two lines as changed_lines:
\* it depends on the least and the greatest line of the set alone.
HighlightDirty ==
    LET changed == {rg_lines[1], rg_lines[2]}
        r == PaddedRange(rg_line_count, changed)
    IN  /\ rg_op = "none"
        /\ rg_op' = "dirty"
        /\ rg_pass' = apply_incremental_highlighting(rg_line_count, changed)
        /\ rg_read' = LinesRead(rg_line_count, r[1], r[2])
        /\ rg_tagged' = LinesTagged(rg_line_count, r[1], r[2])
        /\ UNCHANGED <<rg_line_count, rg_lines>>

RgNext == HighlightRange \/ HighlightDirty

(***************************************************************************)
(* actions.rs, search_and_replace_action: the response handler of the      *)
(* dialog, for Find Next (ResponseType::Ok) and Replace (Apply).           *)
(***************************************************************************)
MaxDialogLen == 3
MaxResponses == 4

DialogSearchTexts == {<<"a">>, <<"A">>, <<"a", "a">>, <<"é">>, <<"(">>}

DlgIdle ==
    /\ dlg_ops = <<>>
    /\ dlg_found = <<>>
    /\ dlg_prev = Buffer(<<>>, 0, 0)

\* A buffer with a cursor and no selection, and the state of the dialog with
\* "Whole word" not set.
DialogInit ==
    /\ s_text \in SeqsUpTo(TextChars, MaxDialogLen)
    /\ s_insert \in 0 .. Len(s_text)
    /\ s_bound = s_insert
    /\ search_text \in DialogSearchTexts
    /\ replacement_text = <<"b", "b">>
    /\ match_case \in BOOLEAN
    /\ whole_word = FALSE
    /\ use_regex \in BOOLEAN
    /\ s_op = "none"
    /\ s_found = None
    /\ s_count = 0
    /\ s_text0 = s_text
    /\ s_insert0 = s_insert
    /\ s_bound0 = s_bound

\* if use_regex: Regex::new(&search_text) fails, the handler returns.
InvalidRegex == use_regex /\ ~RegexNew(search_text)

\* A selection with the insert mark at the end of the match.
SelectAtEnd(buf, found) ==
    IF found.some THEN Buffer(buf.text, found.end, found.start) ELSE buf

\* buffer.select_range(&start_iter, &end_iter) when the find returned a match:
\* the insert mark at its start, the selection bound at its end.
select_found(buf, found) ==
    IF found.some THEN Buffer(buf.text, found.start, found.end) ELSE buf

\* The handler has run op on the buffer before, found what found says, and
\* left the buffer after.
Responded(op, before, found, after) ==
    /\ Len(dlg_ops) < MaxResponses
    /\ dlg_ops' = Append(dlg_ops, op)
    /\ dlg_found' = Append(dlg_found, found)
    /\ dlg_prev' = before
    /\ s_op' = op
    /\ s_found' = found
    /\ s_text' = after.text
    /\ s_insert' = after.insert
    /\ s_bound' = after.bound
    /\ UNCHANGED <<search_text, replacement_text, match_case, whole_word,
                   use_regex, s_count, s_text0, s_insert0, s_bound0>>

FindNextResponse ==
    LET buf == Buffer(s_text, s_insert, s_bound)
        found == IF InvalidRegex THEN None
                 ELSE find_next_advanced(s_text, s_insert, search_text, match_case,
                                         whole_word, use_regex)
    IN  Responded("find_next", buf, found, select_found(buf, found))

ReplaceResponse ==
    LET buf == Buffer(s_text, s_insert, s_bound)
        replaced == replace_selection_advanced(buf, search_text, replacement_text,
                                               use_regex)
        found == find_next_advanced(replaced.text, replaced.insert, search_text,
                                    match_case, whole_word, use_regex)
    IN  IF InvalidRegex THEN Responded("replace", buf, None, buf)
        ELSE Responded("replace", buf, found, select_found(replaced, found))

DialogNext == FindNextResponse \/ ReplaceResponse

(***************************************************************************)
(* tab_manager.rs: the pages of the notebook, the close button that        *)
(* open_file_in_new_tab and create_new_file_tab put in the label of a tab, *)
(* and close_tab.  Tabs are numbered from 1 as they are made; 0 is no tab. *)
(***************************************************************************)
MaxTabs == 4

TabEvent(op, tab, target, removed) ==
    [op |-> op, tab |-> tab, target |-> target, removed |-> removed]

\* notebook.nth_page(Some(page_num)): the tab of that page, 0 when there is none.
nth_page(pages, page_num) ==
    IF page_num >= 0 /\ page_num < Len(pages) THEN pages[page_num + 1] ELSE 0

\* notebook.remove_page(Some(page_num)).
remove_page(pages, page_num) ==
    SubSeq(pages, 1, page_num) \o SubSeq(pages, page_num + 2, Len(pages))

\* The page number of a tab in the notebook now.
page_of(pages, tab) == (CHOOSE i \in 1 .. Len(pages) : pages[i] = tab) - 1

\* close_tab: the page at page_num is removed when its buffer is not modified;
\* for a modified buffer the save prompt is opened for it and the page stays.
close_tab(op, tab, page_num) ==
    LET target == nth_page(nb_pages, page_num)
        removed == target # 0 /\ target \notin nb_modified
    IN  /\ nb_pages' = IF removed THEN remove_page(nb_pages, page_num) ELSE nb_pages
        /\ nb_event' = TabEvent(op, tab, target, removed)
        /\ UNCHANGED <<nb_captured, nb_modified, nb_next>>

TabsInit ==
    /\ nb_pages = <<>>
    /\ nb_captured = [t \in 1 .. MaxTabs |-> 0]
    /\ nb_modified = {}
    /\ nb_next = 1
    /\ nb_event = TabEvent("none", 0, 0, FALSE)

\* open_file_in_new_tab or create_new_file_tab: the page is appended and the
\* handler of the close button keeps the page_num that append_page returned.
NewTab ==
    /\ nb_next <= MaxTabs
    /\ nb_pages' = Append(nb_pages, nb_next)
    /\ nb_captured' = [nb_captured EXCEPT ![nb_next] = Len(nb_pages)]
    /\ nb_next' = nb_next + 1
    /\ nb_event' = TabEvent("new", nb_next, 0, FALSE)
    /\ UNCHANGED nb_modified

\* The buffer of a tab is edited.
ModifyBuffer(tab) ==
    /\ \E i \in 1 .. Len(nb_pages) : nb_pages[i] = tab
    /\ tab \notin nb_modified
    /\ nb_modified' = nb_modified \cup {tab}
    /\ nb_event' = TabEvent("modify", tab, 0, FALSE)
    /\ UNCHANGED <<nb_pages, nb_captured, nb_next>>

\* The close button of the label of a tab is clicked.
ClickClose(tab) ==
    /\ \E i \in 1 .. Len(nb_pages) : nb_pages[i] = tab
    /\ close_tab("click", tab, nb_captured[tab])

\* close_current_tab, with the page of the tab the current page.
CloseCurrentTab(tab) ==
    /\ \E i \in 1 .. Len(nb_pages) : nb_pages[i] = tab
    /\ close_tab("close_current", tab, page_of(nb_pages, tab))

TabsNext ==
    \/ NewTab
    \/ \E tab \in 1 .. MaxTabs : ModifyBuffer(tab)
    \/ \E tab \in 1 .. MaxTabs : ClickClose(tab)
    \/ \E tab \in 1 .. MaxTabs : CloseCurrentTab(tab)

(***************************************************************************)
(* search.rs, compile_regex_with_cache.  A string is a sequence in which   *)
(* the flag "(?i)" is one element; a Regex is known by the string it was   *)
(* compiled from, which fixes what it matches.                             *)
(***************************************************************************)
CachePatterns == {<<"a">>, <<"A">>, <<"(?i)", "a">>, <<"(">>}

Ok(source) == [ok |-> TRUE, source |-> source]
Err == [ok |-> FALSE, source |-> <<>>]

\* Regex::new(s): the regex of s, or the error of a pattern that opens a group
\* it does not close.
Regex_new(source) == IF RegexNew(source) THEN Ok(source) ELSE Err

\* compile_regex: its Result.
compile_regex_result(pattern, mc) ==
    IF mc THEN Regex_new(pattern) ELSE Regex_new(<<"(?i)">> \o pattern)

\* A key that leaves match_case out.
PatternAsKey(pattern, mc) == pattern

\* let cache_key = if match_case { pattern } else { "(?i)" + pattern }.
cache_key(pattern, mc) ==
    IF mc THEN pattern ELSE <<"(?i)">> \o pattern

\* The Result of compile_regex_with_cache on the cache given, and the cache
\* it leaves.
compile_regex_with_cache(cache, pattern, mc) ==
    LET key == cache_key(pattern, mc)
        regex == Regex_new(key)
    IN  IF key \in DOMAIN cache
        THEN [result |-> Ok(cache[key]), cache |-> cache]
        ELSE IF ~regex.ok
             THEN [result |-> Err, cache |-> cache]
             ELSE [result |-> regex,
                   cache |-> [k \in DOMAIN cache \cup {key} |->
                                  IF k = key THEN regex.source ELSE cache[k]]]

NoRegexCall == [pattern |-> <<>>, match_case |-> TRUE, made |-> FALSE]

\* The cache of a new AppContext holds nothing.
CacheIdle ==
    /\ regex_cache = <<>>
    /\ rc_before = <<>>
    /\ rc_call = NoRegexCall
    /\ rc_result = Err

CompileRegexWithCache(pattern, mc) ==
    LET r == compile_regex_with_cache(regex_cache, pattern, mc)
    IN  /\ regex_cache' = r.cache
        /\ rc_before' = regex_cache
        /\ rc_call' = [pattern |-> pattern, match_case |-> mc, made |-> TRUE]
        /\ rc_result' = r.result

CacheNext ==
    \E pattern \in CachePatterns, mc \in BOOLEAN :
        CompileRegexWithCache(pattern, mc)

(***************************************************************************)
(* The specifications: the scheduler of main.rs, and the calls of the      *)
(* functions of syntax_highlighting.rs and search.rs on bounded inputs.    *)
(***************************************************************************)
BracketIdle ==
    /\ br_text = <<>>
    /\ br_iter = 0
    /\ br_called = FALSE
    /\ br_match = -1

Init ==
    /\ SchedInit /\ BracketIdle /\ SearchIdle /\ HlIdle /\ TrackerNew
    /\ ScanIdle /\ BhIdle /\ WinIdle /\ RaIdle /\ RgIdle /\ DlgIdle
    /\ TabsInit /\ CacheIdle

Next ==
    SchedNext
        /\ UNCHANGED <<bracketVars, searchVars, hlVars, trackerVars, scanVars,
                       bhVars, winVars, raVars, rgVars, dlgVars, tabsVars,
                       cacheVars>>

Spec == Init /\ [][Next]_vars

\* The main loop runs the closure of every timeout source that is not removed.
TimersFire ==
    (\E s \in sources : TimerFire(s))
        /\ UNCHANGED <<bracketVars, searchVars, hlVars, trackerVars, scanVars,
                       bhVars, winVars, raVars, rgVars, dlgVars, tabsVars,
                       cacheVars>>

SpecLive == Init /\ [][Next]_vars /\ WF_vars(TimersFire)

InitBracket ==
    /\ SchedInit /\ BracketInit /\ SearchIdle /\ HlIdle /\ TrackerNew
    /\ ScanIdle /\ BhIdle /\ WinIdle /\ RaIdle /\ RgIdle /\ DlgIdle
    /\ TabsInit /\ CacheIdle

NextBracket ==
    FindMatchingBracket
        /\ UNCHANGED <<schedVars, searchVars, hlVars, trackerVars, scanVars,
                       bhVars, winVars, raVars, rgVars, dlgVars, tabsVars,
                       cacheVars>>

SpecBracket == InitBracket /\ [][NextBracket]_vars

InitFind ==
    /\ SchedInit /\ BracketIdle /\ FindInit /\ HlIdle /\ TrackerNew
    /\ ScanIdle /\ BhIdle /\ WinIdle /\ RaIdle /\ RgIdle /\ DlgIdle
    /\ TabsInit /\ CacheIdle

NextFind ==
    (FindNext \/ FindPrevious)
        /\ UNCHANGED <<schedVars, bracketVars, hlVars, trackerVars, scanVars,
                       bhVars, winVars, raVars, rgVars, dlgVars, tabsVars,
                       cacheVars>>

SpecFind == InitFind /\ [][NextFind]_vars

InitReplaceAll ==
    /\ SchedInit /\ BracketIdle /\ ReplaceAllInit /\ HlIdle /\ TrackerNew
    /\ ScanIdle /\ BhIdle /\ WinIdle /\ RaIdle /\ RgIdle /\ DlgIdle
    /\ TabsInit /\ CacheIdle

NextReplaceAll ==
    ReplaceAll
        /\ UNCHANGED <<schedVars, bracketVars, hlVars, trackerVars, scanVars,
                       bhVars, winVars, raVars, rgVars, dlgVars, tabsVars,
                       cacheVars>>

SpecReplaceAll == InitReplaceAll /\ [][NextReplaceAll]_vars

InitRegex ==
    /\ SchedInit /\ BracketIdle /\ RegexInit /\ HlIdle /\ TrackerNew
    /\ ScanIdle /\ BhIdle /\ WinIdle /\ RaIdle /\ RgIdle /\ DlgIdle
    /\ TabsInit /\ CacheIdle

NextRegex ==
    (FindNext \/ FindPrevious \/ ReplaceOne \/ ReplaceAll)
        /\ UNCHANGED <<schedVars, bracketVars, hlVars, trackerVars, scanVars,
                       bhVars, winVars, raVars, rgVars, dlgVars, tabsVars,
                       cacheVars>>

SpecRegex == InitRegex /\ [][NextRegex]_vars

InitReplaceOne ==
    /\ SchedInit /\ BracketIdle /\ ReplaceOneInit /\ HlIdle /\ TrackerNew
    /\ ScanIdle /\ BhIdle /\ WinIdle /\ RaIdle /\ RgIdle /\ DlgIdle
    /\ TabsInit /\ CacheIdle

NextReplaceOne ==
    ReplaceOne
        /\ UNCHANGED <<schedVars, bracketVars, hlVars, trackerVars, scanVars,
                       bhVars, winVars, raVars, rgVars, dlgVars, tabsVars,
                       cacheVars>>

SpecReplaceOne == InitReplaceOne /\ [][NextReplaceOne]_vars

InitScan ==
    /\ SchedInit /\ BracketIdle /\ ScanInit /\ HlIdle /\ TrackerNew
    /\ ScanIdle /\ BhIdle /\ WinIdle /\ RaIdle /\ RgIdle /\ DlgIdle
    /\ TabsInit /\ CacheIdle

NextScan ==
    ScanNext
        /\ UNCHANGED <<schedVars, bracketVars, hlVars, trackerVars, bhVars,
                       winVars, raVars, rgVars, dlgVars, tabsVars, cacheVars>>

\* The call runs to its return: no step of it waits for anything.
SpecScan == InitScan /\ [][NextScan]_vars /\ WF_vars(NextScan)

InitBracketHighlight ==
    /\ SchedInit /\ BracketIdle /\ SearchIdle /\ HlIdle /\ TrackerNew
    /\ ScanIdle /\ BhInit /\ WinIdle /\ RaIdle /\ RgIdle /\ DlgIdle
    /\ TabsInit /\ CacheIdle

NextBracketHighlight ==
    BhNext
        /\ UNCHANGED <<schedVars, bracketVars, searchVars, hlVars, trackerVars,
                       scanVars, winVars, raVars, rgVars, dlgVars, tabsVars,
                       cacheVars>>

SpecBracketHighlight == InitBracketHighlight /\ [][NextBracketHighlight]_vars

InitHighlight ==
    /\ SchedInit /\ BracketIdle /\ SearchIdle /\ HlInit /\ TrackerNew
    /\ ScanIdle /\ BhIdle /\ WinIdle /\ RaIdle /\ RgIdle /\ DlgIdle
    /\ TabsInit /\ CacheIdle

NextHighlight ==
    HlNext
        /\ UNCHANGED <<schedVars, bracketVars, searchVars, trackerVars,
                       scanVars, bhVars, winVars, raVars, rgVars, dlgVars,
                       tabsVars, cacheVars>>

SpecHighlight == InitHighlight /\ [][NextHighlight]_vars

InitTracker ==
    /\ SchedInit /\ BracketIdle /\ SearchIdle /\ HlIdle /\ TrackerNew
    /\ ScanIdle /\ BhIdle /\ WinIdle /\ RaIdle /\ RgIdle /\ DlgIdle
    /\ TabsInit /\ CacheIdle

NextTracker ==
    TrackerNext
        /\ UNCHANGED <<schedVars, bracketVars, searchVars, hlVars, scanVars,
                       bhVars, winVars, raVars, rgVars, dlgVars, tabsVars,
                       cacheVars>>

SpecTracker == InitTracker /\ [][NextTracker]_vars

InitWindow ==
    /\ SchedInit /\ BracketIdle /\ SearchIdle /\ HlIdle /\ TrackerNew
    /\ ScanIdle /\ BhIdle /\ WinInit /\ RaIdle /\ RgIdle /\ DlgIdle
    /\ TabsInit /\ CacheIdle

NextWindow ==
    ApplyIncrementalHighlighting
        /\ UNCHANGED <<schedVars, bracketVars, searchVars, hlVars, trackerVars,
                       scanVars, bhVars, raVars, rgVars, dlgVars, tabsVars,
                       cacheVars>>

SpecWindow == InitWindow /\ [][NextWindow]_vars

InitReplaceSteps ==
    /\ SchedInit /\ BracketIdle /\ RaInit /\ HlIdle /\ TrackerNew /\ ScanIdle
    /\ BhIdle /\ WinIdle /\ RaIdle /\ RgIdle /\ DlgIdle /\ TabsInit
    /\ CacheIdle

NextReplaceSteps ==
    RaNext
        /\ UNCHANGED <<schedVars, bracketVars, hlVars, trackerVars, scanVars,
                       bhVars, winVars, rgVars, dlgVars, tabsVars, cacheVars>>

SpecReplaceSteps == InitReplaceSteps /\ [][NextReplaceSteps]_vars

InitRange ==
    /\ SchedInit /\ BracketIdle /\ SearchIdle /\ HlIdle /\ TrackerNew
    /\ ScanIdle /\ BhIdle /\ WinIdle /\ RaIdle /\ RgInit /\ DlgIdle
    /\ TabsInit /\ CacheIdle

NextRange ==
    RgNext
        /\ UNCHANGED <<schedVars, bracketVars, searchVars, hlVars, trackerVars,
                       scanVars, bhVars, winVars, raVars, dlgVars, tabsVars,
                       cacheVars>>

SpecRange == InitRange /\ [][NextRange]_vars

InitDialog ==
    /\ SchedInit /\ BracketIdle /\ DialogInit /\ HlIdle /\ TrackerNew
    /\ ScanIdle /\ BhIdle /\ WinIdle /\ RaIdle /\ RgIdle /\ DlgIdle
    /\ TabsInit /\ CacheIdle

NextDialog ==
    DialogNext
        /\ UNCHANGED <<schedVars, bracketVars, hlVars, trackerVars, scanVars,
                       bhVars, winVars, raVars, rgVars, tabsVars, cacheVars>>

SpecDialog == InitDialog /\ [][NextDialog]_vars

InitTabs ==
    /\ SchedInit /\ BracketIdle /\ SearchIdle /\ HlIdle /\ TrackerNew
    /\ ScanIdle /\ BhIdle /\ WinIdle /\ RaIdle /\ RgIdle /\ DlgIdle
    /\ TabsInit /\ CacheIdle

NextTabs ==
    TabsNext
        /\ UNCHANGED <<schedVars, bracketVars, searchVars, hlVars, trackerVars,
                       scanVars, bhVars, winVars, raVars, rgVars, dlgVars,
                       cacheVars>>

SpecTabs == InitTabs /\ [][NextTabs]_vars

InitCache ==
    /\ SchedInit /\ BracketIdle /\ SearchIdle /\ HlIdle /\ TrackerNew
    /\ ScanIdle /\ BhIdle /\ WinIdle /\ RaIdle /\ RgIdle /\ DlgIdle
    /\ TabsInit /\ CacheIdle

NextCache ==
    CacheNext
        /\ UNCHANGED <<schedVars, bracketVars, searchVars, hlVars, trackerVars,
                       scanVars, bhVars, winVars, raVars, rgVars, dlgVars,
                       tabsVars>>

SpecCache == InitCache /\ [][NextCache]_vars

(***************************************************************************)
(* The claims.                                                             *)
(***************************************************************************)

(***************************************************************************)
(* C1. For one document, a burst of N >= 1 edit notifications, each        *)
(* arriving while the timer armed by the previous one is still pending,    *)
(* runs no highlighting pass while the timer is pending and exactly one    *)
(* pass once it has fired, whatever N is; the burst of a document whose    *)
(* timer was cancelled by an edit of another document is not covered.      *)
(***************************************************************************)
C1_OnePassPerBurst ==
    \A d \in Docs :
        burstEdits[d] >= 1 =>
            /\ PendingFor(d) # {} => burstPasses[d] = 0
            /\ (PendingFor(d) = {} /\ ~interfered[d]) => burstPasses[d] = 1

C1_Witness ==
    \E d \in Docs :
        burstEdits[d] >= 3 /\ PendingFor(d) = {} /\ ~interfered[d]
        /\ burstPasses[d] = 1

(***************************************************************************)
(* C5. The lines affected by the edits of a document since its dirty set   *)
(* was last drained are all in the dirty set.                              *)
(***************************************************************************)
C5_DirtySuperset == \A d \in Docs : affected[d] \subseteq changed_lines[d]

C5_Witness ==
    \E d \in Docs :
        /\ Cardinality(affected[d]) >= 2
        /\ \E l \in affected[d] : l >= line_count[d]

(***************************************************************************)
(* C10. No document has more than one pending deferred task, and a pending *)
(* task is the one the stored handle names.                                *)
(***************************************************************************)
C10_OnePendingTask ==
    /\ \A d \in Docs : Cardinality(PendingFor(d)) <= 1
    /\ \A s \in sources : s.id = syntax_highlight_timer

C10_Witness ==
    \E d \in Docs : burstEdits[d] >= 2 /\ Cardinality(PendingFor(d)) = 1

(***************************************************************************)
(* C4. At a bracket, find_matching_bracket returns the nearest position,   *)
(* forward from an opening bracket and backward from a closing one, where  *)
(* the depth 1 + (brackets of the seed's class) - (counterparts), counted  *)
(* over the positions passed, is 0; it returns no match when there is no   *)
(* such position and when the character at the position is no bracket.     *)
(***************************************************************************)
Count(t, S, ch) == Cardinality({r \in S : CharAt(t, r) = ch})

DepthAt(t, p, q) ==
    LET ch == CharAt(t, p)
        S == IF q > p THEN p + 1 .. q ELSE q .. p - 1
        same == IF forward(ch) THEN open_bracket(ch) ELSE close_bracket(ch)
        other == IF forward(ch) THEN close_bracket(ch) ELSE open_bracket(ch)
    IN  1 + Count(t, S, same) - Count(t, S, other)

ExpectedMatch(t, p) ==
    LET ch == CharAt(t, p)
        Q == IF ch \notin {"(", ")", "[", "]", "{", "}"} THEN {}
             ELSE IF ch \in {"(", "[", "{"}
                  THEN {q \in p + 1 .. Len(t) - 1 : DepthAt(t, p, q) = 0}
                  ELSE {q \in 0 .. p - 1 : DepthAt(t, p, q) = 0}
    IN  IF Q = {} THEN -1
        ELSE IF ch \in {"(", "[", "{"} THEN SetMin(Q) ELSE SetMax(Q)

C4_BracketMatch ==
    br_called =>
        /\ br_match = ExpectedMatch(br_text, br_iter)
        /\ (br_text = <<"(", "a", "(", "b", ")", "c", ")">> /\ br_iter = 0)
               => br_match = 6
        /\ (br_text = <<"(", "a", "]">> /\ br_iter = 0) => br_match = -1

C4_Witness ==
    /\ br_called
    /\ br_text = <<"(", "a", "(", "b", ")", "c", ")">>
    /\ br_iter = 0
    /\ br_match = 6

(***************************************************************************)
(* search.rs: replace_all, an invalid pattern, wrap-around, whole words.   *)
(***************************************************************************)
\* The text with every match of a left-to-right non-overlapping scan replaced.
RECURSIVE ScanReplace(_, _, _, _, _)
ScanReplace(t, pat, rep, mc, i) ==
    IF i >= Len(t) THEN <<>>
    ELSE IF MatchesAt(t, pat, i, mc)
         THEN rep \o ScanReplace(t, pat, rep, mc, i + Len(pat))
         ELSE <<t[i + 1]>> \o ScanReplace(t, pat, rep, mc, i + 1)

\* The number of matches of that scan.
RECURSIVE ScanCount(_, _, _, _)
ScanCount(t, pat, mc, i) ==
    IF i >= Len(t) THEN 0
    ELSE IF MatchesAt(t, pat, i, mc)
         THEN 1 + ScanCount(t, pat, mc, i + Len(pat))
         ELSE ScanCount(t, pat, mc, i + 1)

PlainReplaceAllDone == s_op = "replace_all" /\ ~use_regex /\ ~whole_word

\* C2: replace_all in plain mode leaves the original text with every match of
\* a left-to-right non-overlapping scan replaced and returns the number of
\* those matches; "a" replaced by "bb" in "aaa" gives "bbbbbb" and 3.
C2_ReplaceAllPlain ==
    PlainReplaceAllDone =>
        /\ s_text = ScanReplace(s_text0, search_text, replacement_text, match_case, 0)
        /\ s_count = ScanCount(s_text0, search_text, match_case, 0)
        /\ (s_text0 = <<"a", "a", "a">> /\ search_text = <<"a">>
                /\ replacement_text = <<"b", "b">>)
            => (s_text = <<"b", "b", "b", "b", "b", "b">> /\ s_count = 3)

C2_Witness ==
    /\ PlainReplaceAllDone
    /\ s_text0 = <<"a", "a", "a">>
    /\ search_text = <<"a">>
    /\ replacement_text = <<"b", "b">>
    /\ s_text = <<"b", "b", "b", "b", "b", "b">>
    /\ s_count = 3

\* C3: in regex mode with a pattern that does not compile, none of find_next,
\* find_previous, replace_one and replace_all changes the text of the document.
C3_InvalidRegexNoChange ==
    (s_op # "none" /\ use_regex /\ ~RegexNew(search_text)) => s_text = s_text0

\* An occurrence the specification accepts in whole-word mode: no word character
\* just before its start or just after its end.
BoundaryOccurrence(t, pat, mc, i) ==
    /\ MatchesAt(t, pat, i, mc)
    /\ CharAt(t, i - 1) \notin WordChars
    /\ CharAt(t, i + Len(pat)) \notin WordChars

\* An occurrence of the search pattern at offset i, in the mode of the flags;
\* in whole-word mode, one that starts at a word start and ends at a word end.
Occurrence(t, pat, mc, ww, re, i) ==
    IF re THEN RegexNew(pat) /\ MatchesAt(t, pat, i, mc)
    ELSE IF ww THEN /\ MatchesAt(t, pat, i, mc)
                    /\ starts_word(t, i)
                    /\ ends_word(t, i + Len(pat))
    ELSE MatchesAt(t, pat, i, mc)

FindDone == s_op \in {"find_next", "find_previous"}

\* C7: in every mode, when the document holds an occurrence of the pattern,
\* find_next and find_previous return a match at every cursor position, and
\* "needle" in "xneedlex" with the cursor after the match returns that match.
C7_FindWraps ==
    (FindDone /\ \E i \in 0 .. Len(s_text) :
                     Occurrence(s_text, search_text, match_case, whole_word,
                                use_regex, i))
        => /\ s_found.some
           /\ s_found.end = s_found.start + Len(search_text)
           /\ Occurrence(s_text, search_text, match_case, whole_word, use_regex,
                         s_found.start)

WholeWordFindDone == FindDone /\ whole_word /\ ~use_regex

BoundaryOccurrences ==
    {i \in 0 .. Len(s_text) : BoundaryOccurrence(s_text, search_text, match_case, i)}

\* What a whole-word find returns when the set A holds the accepted occurrences.
ExpectedWholeWord(A) ==
    LET n == Len(search_text)
        after == {i \in A : i >= forward_char(s_text, s_insert)}
        before == {i \in A : i + n <= s_insert}
    IN  IF A = {} THEN None
        ELSE IF s_op = "find_next"
             THEN IF after # {} THEN Some(SetMin(after), SetMin(after) + n)
                  ELSE Some(SetMin(A), SetMin(A) + n)
             ELSE IF before # {} THEN Some(SetMax(before), SetMax(before) + n)
                  ELSE Some(SetMax(A), SetMax(A) + n)

\* C8: in whole-word mode an occurrence is accepted if and only if neither the
\* character before its start nor the character after its end is a word
\* character, for every search text, one made of non-word characters included;
\* "cat" in "concatenate cat" returns only the second occurrence.
C8_WholeWordBoundary ==
    WholeWordFindDone => s_found = ExpectedWholeWord(BoundaryOccurrences)

(***************************************************************************)
(* syntax_highlighting.rs: the incremental pass and the full pass.         *)
(***************************************************************************)
\* The tags on the characters of line n, its line break included.
LineTags(tags, t, n) ==
    {x \in tags : x[1] >= iter_at_line(t, n) /\ x[1] < LineEnd(t, n)}

\* No block comment is open where line n starts or where it ends.
NoOpenConstruct(t, n) ==
    /\ StateAfter("base", SubSeq(t, 1, iter_at_line(t, n)), 1) = "base"
    /\ StateAfter("base", SubSeq(t, 1, LineEnd(t, n)), 1) = "base"

LastPass == IF hl_ops = <<>> THEN "none" ELSE hl_ops[Len(hl_ops)]

\* C6: after an incremental pass over a range that holds the edited line, no
\* multi-line construct being open across that line, the tags on the line are
\* the tags a full pass puts on that line of the same document.
C6_IncrementalEqualsFull ==
    (LastPass = "incremental" /\ NoOpenConstruct(hl_text, hl_line))
        => LineTags(hl_tags, hl_text, hl_line)
               = LineTags(apply_syntax_highlighting(hl_text, {}).tags, hl_text,
                          hl_line)

\* C9: a second full pass in a row on the unchanged document leaves exactly
\* the tags the first full pass left.
C9_FullPassIdempotent == hl_ops = <<"full", "full">> => hl_tags = hl_before

C9_Witness ==
    /\ hl_ops = <<"full", "full">>
    /\ hl_text = <<"a", "{", "\n", "a">>
    /\ hl_h = "comment"
    /\ hl_tags = {<<0, "fg_plain">>, <<1, "fg_comment">>, <<3, "fg_comment">>}
    /\ hl_before = hl_tags

(***************************************************************************)
(* main.rs: the timers of several documents, a fired timer, a closed       *)
(* document, a requested highlight.                                        *)
(***************************************************************************)
\* C11: an edit of a document cancels only the task pending for that document;
\* a task pending for another open document is still pending after the edit.
C11_EditCancelsOnlyOwn == event.kind = "edit" => event.lost = {}

\* C12: the closure of a timer that fires runs exactly once for its arming, and
\* the stored handle is empty right after it has run.
C12_FireOnceAndClear ==
    /\ \A id \in 1 .. MaxSources :
           /\ fired[id] <= 1
           /\ fired[id] = 1 => \A s \in sources : s.id # id
    /\ event.kind = "fire" =>
           (fired[event.id] = 1 /\ syntax_highlight_timer = 0)

C12_Witness ==
    /\ event.kind = "fire"
    /\ event.id = 2
    /\ fired[1] = 0
    /\ fired[2] = 1
    /\ syntax_highlight_timer = 0
    /\ sources = {}

\* C13: the fire of the timer of a document whose tab was closed is a no-op:
\* it runs no pass on the document and changes no state of it.
C13_FireOnClosedIsNoOp ==
    (event.kind = "fire" /\ ~event.was_open)
        => (event.pass = NoPass /\ ~event.drained)

\* C19: a highlight requested on a document load or on a theme change runs a
\* full pass on each document it is requested for, whatever its dirty set and
\* its timer are.
C19_RequestIsFullPass == event.kind \in {"open", "theme"} => event.skipped = {}

(***************************************************************************)
(* change_tracker.rs: the drain of the tracker.                            *)
(***************************************************************************)
IsRecord(c) == c.op \in {"record_insertion", "record_deletion"}

\* C14: take_changed_lines returns exactly the lines recorded since the last
\* take and leaves the tracker empty, has_changes being false right after it;
\* has_changes is true exactly when the dirty set is not empty; recording a
\* line range a second time leaves the set the first recording left.
C14_DrainReturnsRecorded ==
    /\ tr_call.op = "take_changed_lines" =>
           /\ tr_returned = tr_before
           /\ tr_changed_lines = {}
           /\ ~tracker_has_changes(tr_changed_lines)
    /\ tr_changed_lines = tr_recorded
    /\ tracker_has_changes(tr_changed_lines) <=> Cardinality(tr_changed_lines) > 0
    /\ (/\ IsRecord(tr_call)
        /\ IsRecord(tr_prev_call)
        /\ tr_call.start_line = tr_prev_call.start_line
        /\ tr_call.end_line = tr_prev_call.end_line)
           => tr_changed_lines = tr_before

C14_Witness ==
    /\ tr_call.op = "take_changed_lines"
    /\ tr_prev_call = Call("record_insertion", 0, 1)
    /\ tr_returned = {0, 1, 2}
    /\ tr_changed_lines = {}

(***************************************************************************)
(* search.rs: an invalid pattern in a find, the plain find, replace_one.   *)
(***************************************************************************)
\* C15: in regex mode the outcome of find_next and find_previous for a pattern
\* that does not compile differs from None, the outcome for a valid pattern
\* that occurs nowhere.
C15_InvalidPatternIsError ==
    (FindDone /\ use_regex /\ ~RegexNew(search_text)) => s_found # None

PlainFindDone == FindDone /\ ~use_regex /\ ~whole_word

PlainOccurrences ==
    {i \in 0 .. Len(s_text) : MatchesAt(s_text, search_text, i, match_case)}

\* C16: in plain mode find_next returns the occurrence of the smallest start of
\* at least cursor + 1, or else the first occurrence; find_previous returns the
\* occurrence of the largest end of at most the cursor, or else the last one;
\* each returns None only when the document has no occurrence.
C16_PlainFind ==
    PlainFindDone =>
        LET n == Len(search_text)
            after == {i \in PlainOccurrences : i >= s_insert + 1}
            before == {i \in PlainOccurrences : i + n <= s_insert}
            first == CHOOSE i \in PlainOccurrences :
                         \A j \in PlainOccurrences : i <= j
            last == CHOOSE i \in PlainOccurrences :
                        \A j \in PlainOccurrences : i >= j
            a == CHOOSE i \in after : \A j \in after : i <= j
            b == CHOOSE i \in before : \A j \in before : i >= j
        IN  /\ s_found = None <=> PlainOccurrences = {}
            /\ (s_op = "find_next" /\ after # {}) => s_found = Some(a, a + n)
            /\ (s_op = "find_next" /\ after = {} /\ PlainOccurrences # {})
                   => s_found = Some(first, first + n)
            /\ (s_op = "find_previous" /\ before # {}) => s_found = Some(b, b + n)
            /\ (s_op = "find_previous" /\ before = {} /\ PlainOccurrences # {})
                   => s_found = Some(last, last + n)

C16_Witness ==
    /\ PlainFindDone
    /\ s_op = "find_next"
    /\ s_text = <<"a", " ", "a">>
    /\ search_text = <<"a">>
    /\ s_insert = 2
    /\ s_found = Some(0, 1)

ReplaceOneDone == s_op = "replace_one"

\* The selection when replace_one was called, and what followed it.
SelStart == IF s_insert0 <= s_bound0 THEN s_insert0 ELSE s_bound0
SelEnd == IF s_insert0 <= s_bound0 THEN s_bound0 ELSE s_insert0
AfterSelection == Len(s_text0) - SelEnd

\* The selected text with the leftmost match of the pattern replaced.
RegexReplaced(sel) ==
    LET n == Len(search_text)
        M == {i \in 0 .. Len(sel) - n :
                  \A k \in 1 .. n : sel[i + k] = search_text[k]}
    IN  IF M = {} THEN sel
        ELSE LET i == CHOOSE x \in M : \A y \in M : x <= y
             IN  SubSeq(sel, 1, i) \o replacement_text
                     \o SubSeq(sel, i + n + 1, Len(sel))

\* C20: replace_one leaves the text before and after the selection as it was,
\* leaves the document as it was when there is no selection, and in regex mode
\* puts in place of the selection the result of the pattern's replacement
\* applied to the selected text.
C20_ReplaceOneFrame ==
    ReplaceOneDone =>
        /\ Len(s_text) >= SelStart + AfterSelection
        /\ SubSeq(s_text, 1, SelStart) = SubSeq(s_text0, 1, SelStart)
        /\ SubSeq(s_text, Len(s_text) - AfterSelection + 1, Len(s_text))
               = SubSeq(s_text0, SelEnd + 1, Len(s_text0))
        /\ SelStart = SelEnd => s_text = s_text0
        /\ (use_regex /\ RegexNew(search_text) /\ SelStart < SelEnd)
               => SubSeq(s_text, SelStart + 1, Len(s_text) - AfterSelection)
                      = RegexReplaced(SubSeq(s_text0, SelStart + 1, SelEnd))
        /\ (~use_regex /\ SelStart < SelEnd)
               => SubSeq(s_text, SelStart + 1, Len(s_text) - AfterSelection)
                      = replacement_text

C20_Witness ==
    /\ ReplaceOneDone
    /\ use_regex
    /\ s_text0 = <<" ", "a", "a">>
    /\ s_insert0 = 3
    /\ s_bound0 = 1
    /\ search_text = <<"a">>
    /\ replacement_text = <<"b", "b">>
    /\ s_text = <<" ", "b", "b", "a">>

(***************************************************************************)
(* search.rs: the termination of find_next and find_previous.              *)
(***************************************************************************)
\* The iterator is inside the document, the loop has moved it by exactly one
\* character toward the boundary each time and no more often than the
\* document has characters, and there has been at most one wrap-around.
ScanBounded ==
    /\ sc_iter \in 0 .. Len(s_text)
    /\ sc_pass \in {0, 1}
    /\ sc_steps <= Len(s_text)
    /\ (sc_pc # "idle" /\ sc_steps > 0)
           => /\ whole_word /\ ~use_regex
              /\ s_op = "find_next" => sc_iter = sc_prev_iter + 1
              /\ s_op = "find_previous" => sc_iter = sc_prev_iter - 1
    /\ sc_pc = "done"
           => s_found = IF s_op = "find_next"
                        THEN find_next_advanced(s_text, s_insert, search_text,
                                 match_case, whole_word, use_regex)
                        ELSE find_previous_advanced(s_text, s_insert, search_text,
                                 match_case, whole_word, use_regex)

\* C17: every call of find_next and find_previous returns, after at most one
\* wrap-around retry; the whole-word loops move the iterator at every
\* iteration and stop at the boundary of the document.
C17_FindTerminates == []ScanBounded /\ <>(sc_pc = "done")

\* A whole-word find_next that moved its iterator, wrapped around, moved it
\* again and returned None.
C17_Witness ==
    /\ sc_pc = "done"
    /\ s_op = "find_next"
    /\ whole_word /\ ~use_regex
    /\ s_text = <<"a", "a", "a">>
    /\ search_text = <<"a">>
    /\ s_insert = 0
    /\ sc_pass = 1
    /\ sc_steps = 2
    /\ s_found = None

(***************************************************************************)
(* syntax_highlighting.rs: the brackets highlighted after an update.       *)
(***************************************************************************)
BhUpdated == bh_op = "update"

\* C18: after an update of the bracket highlighting the tagged characters
\* are the bracket at the cursor and its match when there is a match and
\* none otherwise, and the stored pair is empty when there is no match.
C18_HighlightIsPair ==
    BhUpdated =>
        LET m == find_matching_bracket(bh_text, bh_cursor)
        IN  /\ bh_tags = IF m >= 0 THEN {bh_cursor, m} ELSE {}
            /\ m < 0 => ~bh_prev.some

(***************************************************************************)
(* main.rs: the pass of a document after its last edit, what a pass sees,  *)
(* the lines an edit marks, and the idle system after a pass.              *)
(***************************************************************************)
\* C21: a document with dirty lines eventually has a pass that consumes them,
\* whatever happens on the other documents, provided timers fire.
C21_DirtyLeadsToPass ==
    \A d \in Docs : (changed_lines[d] # {}) ~> (changed_lines[d] = {})

\* C25: the pass run by a timer that fires covers every line, still in the
\* document at that time, that an edit made since the previous pass affected,
\* the edits whose timers were cancelled included, and its window lies within
\* the lines the document has at that time.
C25_PassSeesFireTime ==
    (event.kind = "fire" /\ fire_affected # {}) =>
        /\ event.pass.kind = "incremental"
        /\ event.pass.end_line <= line_count[event.buf] - 1
        /\ \A l \in fire_affected :
               l <= line_count[event.buf] - 1
                   => event.pass.start_line <= l /\ l <= event.pass.end_line

\* Two edits of one document, the first of which lost its timer to the
\* second, and the pass that covers the lines of both.
C25_Witness ==
    /\ event.kind = "fire"
    /\ event.id = 2
    /\ fired[1] = 0
    /\ fire_affected = {0, 1}
    /\ line_count[event.buf] = 2
    /\ event.pass = [kind |-> "incremental", start_line |-> 0, end_line |-> 1]

\* C29: every dirty line of a document is a line that an edit made since the
\* previous pass affected: an edit of lines a .. b marks no line outside them.
C29_EditMarksOnlyItsLines ==
    \A d \in Docs : changed_lines[d] \subseteq affected[d]

\* C30: a pass that has run leaves its document without a dirty line and
\* arms no timer, and once no timer is pending every document edited since
\* its previous pass has had exactly one pass.
C30_PassLeavesIdle ==
    /\ event.kind = "fire"
           => changed_lines[event.buf] = {} /\ syntax_highlight_timer = 0
    /\ sources = {}
           => \A d \in Docs : burstEdits[d] > 0 => burstPasses[d] = 1

(***************************************************************************)
(* incremental_highlighting.rs: the window of the incremental pass.        *)
(***************************************************************************)
\* C26: for a dirty set with smallest line m and largest line M, both lines
\* of a document of N lines, the window is max(0, m - 3) .. min(N - 1, M + 3)
\* and 0 <= start <= end <= N - 1; for an empty dirty set there is no pass.
C26_PaddedWindow ==
    win_called =>
        /\ win_changed_lines = {} => win_pass = NoPass
        /\ (win_changed_lines # {} /\ SetMax(win_changed_lines) <= win_line_count - 1)
               => LET m == SetMin(win_changed_lines)
                      M == SetMax(win_changed_lines)
                      N == win_line_count
                  IN  /\ win_pass.kind = "incremental"
                      /\ win_pass.start_line = (IF m - 3 > 0 THEN m - 3 ELSE 0)
                      /\ win_pass.end_line = (IF M + 3 < N - 1 THEN M + 3 ELSE N - 1)
                      /\ 0 <= win_pass.start_line
                      /\ win_pass.start_line <= win_pass.end_line
                      /\ win_pass.end_line <= N - 1

\* A window that neither bound of the document clamps.
C26_Witness ==
    /\ win_called
    /\ win_line_count = 9
    /\ win_changed_lines = {4}
    /\ win_pass = [kind |-> "incremental", start_line |-> 1, end_line |-> 7]

(***************************************************************************)
(* syntax_highlighting.rs: the lines an incremental pass leaves alone, and *)
(* the style tags of the tag table.                                        *)
(***************************************************************************)
\* C27: an incremental pass leaves the tags of every character outside the
\* lines of its window as they were, and has run the tokenizer over every
\* line from line 0.
C27_WindowFrame ==
    LastPass = "incremental" =>
        LET w == Window(hl_text, hl_range[1], hl_range[2])
        IN  /\ \A x \in hl_tags \cup hl_before :
                   (x[1] < w[1] \/ x[1] >= w[2])
                       => (x \in hl_tags <=> x \in hl_before)
            /\ w[1] < w[2] => hl_h = StateAfter("base", hl_text, 1)

\* Two tagged lines, the second of which a pass has highlighted anew.
C27_Witness ==
    /\ hl_ops = <<"incremental">>
    /\ hl_text = <<"a", "\n", "a">>
    /\ hl_range = <<1, 1>>
    /\ hl_before = StaleTags(hl_text)
    /\ hl_tags = {<<0, "fg_comment">>, <<1, "fg_comment">>, <<2, "fg_plain">>}

\* The style keys the tokenizer produces.
StyleKeys == {"fg_plain", "fg_comment"}

\* C28: the tag table holds at most one tag of every style key, so never more
\* tags than there are keys, and every tag on a character is in the table.
C28_OneTagPerKey ==
    /\ \A j, k \in 1 .. Len(hl_table) : hl_table[j] = hl_table[k] => j = k
    /\ \A k \in 1 .. Len(hl_table) : hl_table[k] \in StyleKeys
    /\ Len(hl_table) <= Cardinality(StyleKeys)
    /\ \A x \in hl_tags : \E k \in 1 .. Len(hl_table) : hl_table[k] = x[2]

\* Two passes over a text with chunks of both keys, several of one of them.
C28_Witness ==
    /\ hl_ops = <<"full", "incremental">>
    /\ hl_text = <<"a", "\n", "a", "{">>
    /\ hl_tags = {<<0, "fg_plain">>, <<2, "fg_plain">>, <<3, "fg_comment">>}
    /\ hl_table = <<"fg_plain", "fg_comment">>

\* C22: while replace_all collects, the document is the one it was called on;
\* before each replacement, every collected match not yet replaced designates the
\* text it designated when it was collected, and the document up to its end is
\* as it was.
C22_PendingMatchesStable ==
    /\ ra_pc = "collect" => s_text = s_text0
    /\ ra_pc \in {"collect", "replace"} =>
           \A i \in 1 .. Len(ra_matches) :
               i \notin ra_processed =>
                   /\ Designated(s_text, ra_matches[i]) = ra_designated[i]
                   /\ Text(s_text, 0, iter_at_offset(s_text, ra_matches[i].end))
                          = Text(s_text0, 0, iter_at_offset(s_text0, ra_matches[i].end))

C22_Witness ==
    /\ ra_pc = "replace"
    /\ s_text0 = <<"a", "a", "a">>
    /\ Len(ra_matches) = 3
    /\ ra_processed = {3}
    /\ s_text = <<"a", "a", "b", "b">>

\* The delete at place i of the log and the insert of the same replacement are
\* a user action of their own.
OwnGroup(log, i) ==
    /\ i > 1
    /\ i + 2 <= Len(log)
    /\ log[i - 1] = <<"begin">>
    /\ log[i + 1] = <<"insert", log[i][2]>>
    /\ log[i + 2] = <<"end">>

\* C23: when replace_all returns, in every mode, every replacement it made is
\* a user action of its own: begun before its delete, ended after its insert,
\* with no other replacement in it.
C23_OwnUndoGroup ==
    ra_pc = "done" =>
        \A i \in 1 .. Len(ra_log) : ra_log[i][1] = "delete" => OwnGroup(ra_log, i)

\* C24: in whole-word mode, replace_all collects every occurrence that
\* find_next returns from some cursor of the document.
C24_CollectsWhatFindNextFinds ==
    (ra_pc = "replace" /\ ra_done = 0 /\ whole_word /\ ~use_regex) =>
        \A c \in 0 .. Len(s_text0) :
            LET m == find_next_whole_word(s_text0, c, search_text, match_case)
            IN  m.some => \E i \in 1 .. Len(ra_matches) : ra_matches[i] = m

\* C31: right after the closure of a timer has run for a document, the dirty
\* set of that document is empty, and the dirty set of a document is empty as
\* long as no edit of it has come since its last drain (or since it was opened).
C31_CleanUntilEdit ==
    /\ event.kind = "fire" => changed_lines[event.buf] = {}
    /\ \A d \in Docs : affected[d] = {} => changed_lines[d] = {}

C31_Witness ==
    /\ event.kind = "edit"
    /\ event.buf = "d2"
    /\ last_pass["d1"].kind = "incremental"
    /\ fired[1] = 1
    /\ affected["d1"] = {}
    /\ changed_lines["d1"] = {}
    /\ changed_lines["d2"] # {}

\* C32: called with any range of lines or any dirty set, lines below 0 and at
\* or beyond the line count included, the incremental pass asks the buffer for
\* lines of 0 .. line count - 1 only (so every iterator it unwraps is there),
\* tags lines of 0 .. line count - 1 only, and works on no range or on one
\* within the document.
C32_OutOfRangeClamped ==
    rg_op # "none" =>
        /\ rg_read \subseteq 0 .. (rg_line_count - 1)
        /\ rg_tagged \subseteq 0 .. (rg_line_count - 1)
        /\ rg_pass.kind = "incremental" =>
               /\ 0 <= rg_pass.start_line
               /\ rg_pass.start_line <= rg_pass.end_line
               /\ rg_pass.end_line <= rg_line_count - 1
               /\ rg_tagged = rg_pass.start_line .. rg_pass.end_line

\* Lines recorded before a deletion shortened the document to two lines,
\* and a line below 0.
C32_Witness ==
    /\ rg_op = "dirty"
    /\ rg_line_count = 2
    /\ rg_lines = <<0 - 2, 5>>
    /\ rg_pass = [kind |-> "incremental", start_line |-> 0, end_line |-> 1]
    /\ rg_tagged = {0, 1}

\* C33: in every mode and for every pattern that compiles, every iteration of
\* the collection loop of replace_all leaves the scan further in the document
\* than it found it, and the list holds at most one match for every position.
C33_CollectionAdvances ==
    /\ (ra_pc = "collect" /\ ra_prev_iter >= 0) => ra_iter > ra_prev_iter
    /\ Len(ra_matches) <= Len(s_text0) + 1

\* The last two responses were Find Next, which returned a match and selected
\* it, and then Replace, in regex mode with a pattern that compiles.
ReplacedAfterFind ==
    /\ Len(dlg_ops) >= 2
    /\ dlg_ops[Len(dlg_ops)] = "replace"
    /\ dlg_ops[Len(dlg_ops) - 1] = "find_next"
    /\ dlg_found[Len(dlg_ops) - 1].some
    /\ use_regex

\* The document after a replace response that put the replacement in the
\* place of the selection of the buffer before.
SelectionReplaced ==
    s_text = Text(dlg_prev.text, 0, Min(dlg_prev.insert, dlg_prev.bound))
                 \o replacement_text
                 \o Text(dlg_prev.text, Max(dlg_prev.insert, dlg_prev.bound),
                         Len(dlg_prev.text))

\* C34: in regex mode, with "Match case" set or not, a Replace that follows
\* a Find Next that returned and selected a match puts the replacement in the
\* place of that match.
C34_ReplaceAfterFind ==
    ReplacedAfterFind =>
        /\ dlg_prev.insert = dlg_found[Len(dlg_ops) - 1].start
        /\ dlg_prev.bound = dlg_found[Len(dlg_ops) - 1].end
        /\ SelectionReplaced

\* The starts of the matches the first n responses returned.
FoundStarts(n) == {dlg_found[i].start : i \in 1 .. n}

\* C36: in plain mode, on a document with k >= 1 occurrences, k Find Next
\* responses in a row return k different occurrences, all of them; each starts
\* after the one before but for one wrap from the last occurrence to the first;
\* the response after them returns what the first returned.
C36_FindNextCycles ==
    LET k == Cardinality(PlainOccurrences)
        n == Len(dlg_ops)
    IN  (/\ ~use_regex /\ ~whole_word
         /\ k >= 1
         /\ \A i \in 1 .. n : dlg_ops[i] = "find_next")
            => /\ \A i \in 1 .. n :
                      /\ dlg_found[i].some
                      /\ dlg_found[i].start \in PlainOccurrences
                      /\ dlg_found[i].end = dlg_found[i].start + Len(search_text)
               /\ s_text = s_text0
               /\ n >= k => FoundStarts(k) = PlainOccurrences
               /\ \A i \in 1 .. Min(n, k) : \A j \in 1 .. Min(n, k) :
                      i # j => dlg_found[i] # dlg_found[j]
               /\ Cardinality({i \in 1 .. Min(n, k) - 1 :
                                   dlg_found[i + 1].start < dlg_found[i].start}) <= 1
               /\ \A i \in 1 .. Min(n, k) - 1 :
                      dlg_found[i + 1].start < dlg_found[i].start
                          => /\ dlg_found[i].start = SetMax(PlainOccurrences)
                             /\ dlg_found[i + 1].start = SetMin(PlainOccurrences)
               /\ n >= k + 1 => dlg_found[k + 1] = dlg_found[1]

\* "aaa" searched for "aa" from the start: the overlapping occurrences at 1 and
\* at 0, then the one at 1 again.
C36_Witness ==
    /\ dlg_ops = <<"find_next", "find_next", "find_next">>
    /\ ~use_regex
    /\ s_text = <<"a", "a", "a">>
    /\ search_text = <<"a", "a">>
    /\ s_insert0 = 0
    /\ dlg_found = <<Some(1, 3), Some(0, 2), Some(1, 3)>>
    /\ s_insert = 1
    /\ s_bound = 3

\* C35: in regex mode the range find_next or find_previous returns holds the
\* characters the pattern matched: it starts at a character position where the
\* pattern matches the document and ends where that match ends.
C35_RegexRangeIsMatch ==
    (FindDone /\ use_regex /\ s_found.some)
        => /\ MatchesAt(s_text, search_text, s_found.start, match_case)
           /\ s_found.end = s_found.start + Len(search_text)

\* C37: when find_matching_bracket at p returns q, find_matching_bracket at q
\* returns p, and the characters at p and q are the opening and the closing
\* bracket of one type, the opening one first.
C37_MatchIsInvolution ==
    (br_called /\ br_match # -1) =>
        LET p == br_iter
            q == br_match
            ch == CharAt(br_text, p)
        IN  /\ find_matching_bracket(br_text, q) = p
            /\ CharAt(br_text, Min(p, q)) = open_bracket(ch)
            /\ CharAt(br_text, Max(p, q)) = close_bracket(ch)
            /\ open_bracket(ch) \in {"(", "[", "{"}
            /\ p # q

\* From the closing bracket of a pair that holds a nested pair of its type.
C37_Witness ==
    /\ br_called
    /\ br_text = <<"(", "[", "(", ")">>
    /\ br_iter = 3
    /\ br_match = 2
    /\ find_matching_bracket(br_text, 2) = 3

\* C38: after any opens and closes of tabs, the click of the close button of a
\* tab has close_tab work on the page of that tab, and on no other.
C38_CloseButtonClosesItsTab ==
    nb_event.op = "click" => nb_event.target = nb_event.tab

\* C39: whatever calls came before, compile_regex_with_cache returns what
\* compile_regex returns for the same pattern and match_case: the error, or a
\* regex compiled from the same string; no key of the cache is a string that
\* does not compile; a call that fails, and a call whose key the cache held,
\* leave the cache as it was.
C39_CacheRefinesCompile ==
    /\ \A k \in DOMAIN regex_cache : RegexNew(k)
    /\ rc_call.made =>
           LET key == cache_key(rc_call.pattern, rc_call.match_case)
           IN  /\ rc_result = compile_regex_result(rc_call.pattern, rc_call.match_case)
               /\ ~rc_result.ok => regex_cache = rc_before
               /\ key \in DOMAIN rc_before => regex_cache = rc_before

\* A hit on the key "(?i)a", put there by the call for "a" without match_case,
\* by the call for the pattern "(?i)a" with match_case.
C39_Witness ==
    /\ rc_call = [pattern |-> <<"(?i)", "a">>, match_case |-> TRUE, made |-> TRUE]
    /\ DOMAIN rc_before = {<<"(?i)", "a">>, <<"a">>}
    /\ regex_cache = rc_before
    /\ rc_result = Ok(<<"(?i)", "a">>)

=============================================================================
